---- MODULE Spec2Model ----
(***************************************************************************)
(* A model of the pointlessly reactive runtime (lib/pointlessly.ts):       *)
(* signals with dependency tracking, the $ component container, the        *)
(* $bind / $if / $for structural primitives, the intrinsic element factory *)
(* and the part of the host document (DOM) they act on.                    *)
(*                                                                         *)
(* The heap of the running page is kept in four sequences: comps (every    *)
(* component object ever created, a record per object holding the          *)
(* variables its closures capture), sigs (every signal), nodes (every DOM  *)
(* node) and log (the component-method calls of the handler that ran       *)
(* last).  An object is named by its index; 0 stands for null/undefined.   *)
(* last names the handler that ran last and its arguments; overlap records *)
(* whether two nodes rendered for one $bind were ever attached at once.    *)
(* The operators of the runtime take a heap record h and return the heap   *)
(* after the call, with the call's return value in h.ret.                  *)
(***************************************************************************)
EXTENDS Integers, Sequences, FiniteSets, TLC

VARIABLES comps, sigs, nodes, log, err, overlap, root, ops, destroys, pending, last

vars == <<comps, sigs, nodes, log, err, overlap, root, ops, destroys, pending, last>>

\* ------------------------------------------------------------------ bounds

\* handler invocations (writes, destroys, async resumptions) after renderRoot
MaxOps == 3
\* a Counter's count is driven up to this value by its "+" button
MaxCount == 2
\* destroy() calls the application itself makes
MaxDestroys == 1

Null == 0

\* ------------------------------------------------------- sequence helpers

Without(seq, x) == SelectSeq(seq, LAMBDA y: y # x)

Has(seq, x) == \E i \in DOMAIN seq : seq[i] = x

IndexOf(seq, x) == CHOOSE i \in DOMAIN seq : seq[i] = x

Last(seq) == seq[Len(seq)]

\* the sequence f(1), ..., f(n) of a function f on 1..n
Tuple(f) == SubSeq(f, 1, Len(f))

\* ---------------------------------------------------------- host document
\* A DOM node: its kind ("el", "text", "frag"), its parent (Null when
\* detached), its ordered children, and the string of a text node.

Node(kind, text) == [kind |-> kind, parent |-> Null, kids |-> <<>>, text |-> text]

\* document.createElement / createTextNode / createDocumentFragment
createNode(h, kind, text) ==
  [h EXCEPT !.nodes = Append(@, Node(kind, text)), !.ret = Len(h.nodes) + 1]

\* the removal step shared by remove(), appendChild() and replaceWith()
domDetach(ns, n) ==
  LET p == ns[n].parent IN
  IF p = Null THEN ns
  ELSE [ns EXCEPT ![p].kids = Without(@, n), ![n].parent = Null]

\* ChildNode.remove()
domRemove(h, n) == [h EXCEPT !.nodes = domDetach(h.nodes, n)]

\* node n is in the document: its parent chain ends at the mount point (node 1)
RECURSIVE Attached(_, _)
Attached(ns, n) ==
  IF n = Null THEN FALSE
  ELSE IF n = 1 THEN TRUE
  ELSE Attached(ns, ns[n].parent)

\* the nodes of seq that are in the document
AttachedOf(ns, seq) == {i \in DOMAIN seq : Attached(ns, seq[i])}

\* h, with overlap raised when some $bind has two of the nodes rendered for
\* it in the document; evaluated after every mutation of the document
Observed(h) ==
  IF h.overlap THEN h
  ELSE [h EXCEPT !.overlap =
          \E b \in DOMAIN h.comps :
             /\ h.comps[b].kind = "bind"
             /\ Cardinality(AttachedOf(h.nodes, h.comps[b].outs)) > 1]

\* Node.appendChild(n): a Text node takes no children (HierarchyRequestError);
\* a fragment hands over its children and is left empty; any other node is
\* moved from wherever it is to the end of p.
appendChild(h, p, n) ==
  IF h.err THEN h
  ELSE IF h.nodes[p].kind = "text" THEN [h EXCEPT !.err = TRUE]
  ELSE IF h.nodes[n].kind = "frag" THEN
    LET ks == h.nodes[n].kids IN
    Observed([h EXCEPT !.nodes =
       Tuple([i \in DOMAIN h.nodes |->
                IF i = p THEN [h.nodes[i] EXCEPT !.kids = @ \o ks]
                ELSE IF i = n THEN [h.nodes[i] EXCEPT !.kids = <<>>]
                ELSE IF Has(ks, i) THEN [h.nodes[i] EXCEPT !.parent = p]
                ELSE h.nodes[i]])])
  ELSE
    LET d == domDetach(h.nodes, n) IN
    Observed([h EXCEPT !.nodes = [d EXCEPT ![p].kids = Append(@, n), ![n].parent = p]])

\* a faulty replaceWith, which inserts new and leaves old in place; C4 does
\* not hold of it
insertBeside(h, old, new) ==
  IF h.err \/ h.nodes[old].parent = Null \/ new = old THEN h
  ELSE appendChild(h, h.nodes[old].parent, new)

\* ChildNode.replaceWith(new): nothing happens when old has no parent;
\* otherwise new (or, for a fragment, its children) takes old's place.
replaceWith(h, old, new) ==
  LET p == h.nodes[old].parent IN
  IF h.err \/ p = Null \/ new = old THEN h
  ELSE IF h.nodes[new].kind = "frag" THEN
    LET ks   == h.nodes[new].kids
        sibs == h.nodes[p].kids
        at   == IndexOf(sibs, old)
    IN
    Observed([h EXCEPT !.nodes =
       Tuple([i \in DOMAIN h.nodes |->
                IF i = p
                  THEN [h.nodes[i] EXCEPT !.kids =
                          SubSeq(sibs, 1, at - 1) \o ks \o SubSeq(sibs, at + 1, Len(sibs))]
                ELSE IF i = new THEN [h.nodes[i] EXCEPT !.kids = <<>>]
                ELSE IF i = old THEN [h.nodes[i] EXCEPT !.parent = Null]
                ELSE IF Has(ks, i) THEN [h.nodes[i] EXCEPT !.parent = p]
                ELSE h.nodes[i]])])
  ELSE
    LET d    == domDetach(h.nodes, new)
        sibs == d[p].kids
    IN
    Observed([h EXCEPT !.nodes =
       [d EXCEPT ![p].kids = Tuple([i \in DOMAIN sibs |->
                                      IF sibs[i] = old THEN new ELSE sibs[i]]),
                 ![old].parent = Null,
                 ![new].parent = p]])

\* ------------------------------------------------------------------ heap

Logged(h, op, c, a) == [h EXCEPT !.log = Append(@, [op |-> op, c |-> c, a |-> a])]

Alloc(h, rec) == [h EXCEPT !.comps = Append(@, rec), !.ret = Len(h.comps) + 1]

\* ----------------------------------------------------------------- signal
\* listeners is a JavaScript Set: insertion-ordered, add is idempotent, and
\* forEach visits entries added while it runs and skips entries deleted
\* before it reaches them.  A deleted entry leaves a hole (Null) until the
\* handler returns, so that positions of a running forEach stay valid.

\* a faulty add, which keeps duplicates as an array would; C2 does not hold
\* of it
pushAgain(ls, l) == Append(ls, l)

setAdd(ls, l) == IF Has(ls, l) THEN ls ELSE Append(ls, l)

setDelete(ls, l) == Tuple([i \in DOMAIN ls |-> IF ls[i] = l THEN Null ELSE ls[i]])

\* the members of the Set, in insertion order
Members(ls) == Without(ls, Null)

\* signalFactory(context)(initialValue): value and listeners are the
\* closure's variables; init, hist and order are history: the value the
\* signal was created with, the arguments of every write call made since,
\* and the listeners in the order in which each first subscribed
signalFactory(h, owner, initialValue) ==
  [h EXCEPT !.sigs = Append(@, [owner |-> owner, value |-> initialValue,
                                listeners |-> <<>>,
                                init |-> initialValue, hist |-> <<>>,
                                order |-> <<>>]),
            !.ret = Len(h.sigs) + 1]

\* a faulty read, which records an unsubscriber also when no listener is
\* active; C20 does not hold of it
readRecording(h, s) ==
  LET o == h.sigs[s].owner
      l == h.comps[o].currentListener
  IN [h EXCEPT !.sigs[s].listeners = IF l # Null THEN setAdd(@, l) ELSE @,
               !.comps[o].unsubscribers = Append(@, [s |-> s, l |-> l]),
               !.ret = h.sigs[s].value]

\* read()
read(h, s) ==
  LET o == h.sigs[s].owner
      l == h.comps[o].currentListener
  IN
  IF l # Null
    THEN [h EXCEPT !.sigs[s].listeners = setAdd(@, l),
                   !.sigs[s].order = IF Has(@, l) THEN @ ELSE Append(@, l),
                   !.comps[o].unsubscribers = Append(@, [s |-> s, l |-> l]),
                   !.ret = h.sigs[s].value]
    ELSE [h EXCEPT !.ret = h.sigs[s].value]

\* an unsubscriber pushed by read(): () => listeners.delete(listener)
unsubscribeOne(h, u) == [h EXCEPT !.sigs[u.s].listeners = setDelete(@, u.l)]

\* unsubscribers.forEach((unsubscribe) => unsubscribe(rerender))
RECURSIVE unsubscribeAll(_, _, _)
unsubscribeAll(h, us, i) ==
  IF i > Len(us) THEN h ELSE unsubscribeAll(unsubscribeOne(h, us[i]), us, i + 1)

\* a faulty assignment, which drops what is written; C1 does not hold of it
keepValue(nv, value) == value

\* isFunction(newValue) ? newValue(value) : newValue, for the updaters the
\* components pass: curr => curr + 1 and curr => curr - 1
newValueOf(nv, value) ==
  CASE nv.k = "upd" -> (IF nv.f = "inc" THEN value + 1 ELSE value - 1)
    [] nv.k = "not" -> ~value
    [] OTHER        -> nv.v

\* what a handler may do next with a value: a count stays within 0..MaxCount
Allowed(nv, value) ==
  IF nv.k = "upd"
    THEN (IF nv.f = "inc" THEN value < MaxCount ELSE value > 0)
    ELSE TRUE

\* ------------------------------------------------- application components
\* Render functions are data: a definition lists its $signal calls (initial
\* value, and the values its event handlers write), its $mount effect and
\* the component expression it returns.  Signals are named by hook slot.

Text(v) == [t |-> "text", v |-> v]

\* a signal getter passed as a child: div()(count)
Getter(s) == [t |-> "getter", s |-> s]

\* a signal read while the expression is evaluated: div()(`Hi ${myName()}`)
ReadOf(s) == [t |-> "read", s |-> s]

\* `${todo.title}`: a prop of the enclosing render function
PropText(k) == [t |-> "prop", k |-> k]

\* the item handed to a $for builder
ItemText == [t |-> "item"]

\* $id()
IdText == [t |-> "id"]

\* one entry of a props object literal: a constant, the builder's item, or
\* a signal read
Prop(key, e, v) == [key |-> key, e |-> e, v |-> v]

Leaf(kids) == [t |-> "leaf", kids |-> kids]

Bind(body) == [t |-> "bind", body |-> body]

If(s, p, whenTrue, whenFalse) ==
  [t |-> "if", s |-> s, p |-> p, whenTrue |-> whenTrue, whenFalse |-> whenFalse]

\* $if(cond)(whenTrue) with no second argument
None == [t |-> "none"]

For(s, item) == [t |-> "for", s |-> s, item |-> item]

\* Def(props): props is a sequence of key/expression pairs, void when the
\* factory is called with no argument
Custom(def, void, props) == [t |-> "custom", def |-> def, void |-> void, props |-> props]

Val(v) == [k |-> "val", f |-> "", v |-> v]

Upd(f) == [k |-> "upd", f |-> f, v |-> 0]

\* setChecked(!checked())
Toggle == [k |-> "not", f |-> "", v |-> 0]

NoMount == [has |-> FALSE, sync |-> <<>>, async |-> <<>>, cleanup |-> FALSE]

\* the lists the application hands to a list signal
Lists == {<<>>, <<1>>, <<1, 2>>, <<2, 1>>}

\* README "$bind" and "$if": MyComponent with myName, rendered by a $bind
\* over `Hi ${myName()}`, a $bind over the getter (Counter's form), a
\* two-branch $if and a one-branch $if
Profile ==
  [signals |-> <<[init |-> 0, writes |-> {Val(0), Val(1)}]>>,
   mount   |-> NoMount,
   body    |-> Leaf(<<Leaf(<<Text("My Profile")>>),
                      Bind(Leaf(<<ReadOf(1)>>)),
                      Bind(Leaf(<<Getter(1)>>)),
                      If(1, "eq1", Leaf(<<Text("It's Steve!")>>),
                                   Leaf(<<Text("Oh, you're not steve...")>>)),
                      If(1, "eq1", Leaf(<<Text("It's Steve!")>>), None)>>)]

\* a signal with the values and updaters its setter is called with
Sig(init, writes) == [init |-> init, writes |-> writes]

\* Counter of lib/pointlessly.ts: a count, shown by a $bind over the getter
Counter ==
  [signals |-> <<Sig(0, {Upd("inc"), Upd("dec")})>>,
   mount   |-> NoMount,
   body    |-> Leaf(<<Bind(Leaf(<<Getter(1)>>)),
                      Leaf(<<Text("+")>>),
                      Leaf(<<Text("-")>>),
                      Leaf(<<IdText>>)>>)]

\* MyComponent of lib/pointlessly.ts: todos and loading, a mount effect
\* that fetches, and $if(loading)(div, ul($for(todos, Counter)))
MyComponent ==
  [signals |-> <<Sig(<<>>, {Val(l) : l \in Lists}), Sig(TRUE, {})>>,
   mount   |-> [has |-> TRUE, sync |-> <<>>, cleanup |-> FALSE,
                async |-> <<[s |-> 1, nv |-> Val(<<1, 2>>)], [s |-> 2, nv |-> Val(FALSE)]>>],
   body    |-> Leaf(<<Leaf(<<If(2, "truthy",
                                Leaf(<<Text("Loading...")>>),
                                Leaf(<<For(1, Custom("Counter", FALSE,
                                                     <<Prop("initialValue", "const", 0),
                                                       Prop("title", "item", 0)>>))>>))>>)>>)]

\* Todo of components/Todos.ts: checked, shown by a $bind over checked()
Todo ==
  [signals |-> <<Sig(FALSE, {Toggle})>>,
   mount   |-> NoMount,
   body    |-> Leaf(<<Bind(Leaf(<<ReadOf(1)>>)),
                      Leaf(<<PropText("todo")>>),
                      Leaf(<<Text("toggle")>>)>>)]

\* Todos of components/Todos.ts
Todos ==
  [signals |-> <<Sig(<<>>, {}), Sig(FALSE, {}), Sig(1, {Val(0)})>>,
   mount   |-> [has |-> TRUE, sync |-> <<[s |-> 2, nv |-> Val(TRUE)]>>, cleanup |-> FALSE,
                async |-> <<[s |-> 1, nv |-> Val(<<1, 2>>)], [s |-> 2, nv |-> Val(FALSE)]>>],
   body    |-> Leaf(<<Leaf(<<Bind(Leaf(<<ReadOf(3)>>)), Leaf(<<Text("reset")>>)>>),
                      If(2, "truthy",
                         Leaf(<<Text("loading...")>>),
                         Leaf(<<For(1, Custom("Todo", FALSE, <<Prop("todo", "item", 0)>>))>>))>>)]

\* README "$for": MyFriends, a $if over friends().length === 0 with a $for
\* of li elements as its second branch
MyFriends ==
  [signals |-> <<Sig(<<1, 2>>, {Val(l) : l \in Lists})>>,
   mount   |-> NoMount,
   body    |-> Leaf(<<If(1, "empty",
                         Leaf(<<Text("Wow... you have no friends...")>>),
                         For(1, Leaf(<<ItemText>>)))>>)]

\* a component that takes no props (as Todos and TodoTitled do), with state
Badge ==
  [signals |-> <<Sig(0, {Upd("inc")})>>,
   mount   |-> NoMount,
   body    |-> Leaf(<<Bind(Leaf(<<Getter(1)>>))>>)]

\* a list of components that take no props, followed by another child of
\* the same element: ul()($for(items, () => Badge()), li()("more"))
Badges ==
  [signals |-> <<Sig(<<1>>, {Val(<<1>>), Val(<<1, 2>>)})>>,
   mount   |-> NoMount,
   body    |-> Leaf(<<For(1, Custom("Badge", TRUE, <<>>)), Leaf(<<Text("more")>>)>>)]

\* a list whose builder makes a $bind of the same instance:
\* $for(rows, (row) => $bind(() => li()(row, unit(), unit)))
Table ==
  [signals |-> <<Sig(<<1, 2>>, {Val(<<1>>), Val(<<1, 2>>)}), Sig(0, {Val(0), Val(1)})>>,
   mount   |-> NoMount,
   body    |-> Leaf(<<For(1, Bind(Leaf(<<ItemText, ReadOf(2), Getter(2)>>)))>>)]

\* a list whose builder makes a $bind that reads the list's own signal:
\* $for(rows, (row) => $bind(() => li()(row, `of ${rows().length}`)))
Rows ==
  [signals |-> <<Sig(<<1>>, {Val(<<1>>), Val(<<1, 2>>)})>>,
   mount   |-> NoMount,
   body    |-> Leaf(<<For(1, Bind(Leaf(<<ItemText, ReadOf(1)>>)))>>)]

\* a component with a mount effect that returns a cleanup (a timer started
\* and cleared) and an $effect over [label]
Clock ==
  [signals |-> <<>>,
   mount   |-> [has |-> TRUE, sync |-> <<>>, async |-> <<>>, cleanup |-> TRUE],
   effects |-> <<[deps |-> <<"label">>, cleanup |-> FALSE]>>,
   body    |-> Leaf(<<PropText("label")>>)]

\* a page of Clocks: one made by a $bind callback from a signal read (as
\* App makes its Navbar), one as the first branch of a $if, and a $for of
\* them; its render function also reads shown() outside any primitive, as
\* README's "NOT reactive" `Hello ${myName()}` does
Clocks ==
  [signals |-> <<Sig(<<1>>, {Val(<<1>>), Val(<<2>>)}), Sig(TRUE, {Val(FALSE), Val(TRUE)})>>,
   mount   |-> NoMount,
   body    |-> Leaf(<<Leaf(<<ReadOf(2)>>),
                      Bind(Custom("Clock", FALSE, <<Prop("label", "read", 2)>>)),
                      If(2, "truthy", Custom("Clock", FALSE, <<Prop("label", "const", 0)>>),
                                      Leaf(<<Text("stopped")>>)),
                      Leaf(<<For(1, Custom("Clock", FALSE, <<Prop("label", "item", 0)>>))>>)>>)]

Defs ==
  [Profile |-> Profile, Counter |-> Counter, MyComponent |-> MyComponent,
   Todo |-> Todo, Todos |-> Todos, MyFriends |-> MyFriends,
   Badge |-> Badge, Badges |-> Badges, Table |-> Table,
   Clock |-> Clock, Clocks |-> Clocks, Rows |-> Rows]

\* the $effect calls of a render function, in call order
EffectsOf(def) == IF "effects" \in DOMAIN def THEN def.effects ELSE <<>>

\* the components renderRoot is given
Apps == {"Profile", "MyComponent", "Todos", "MyFriends", "Badges", "Table", "Clocks",
         "Rows"}

\* the predicates handed to $if
condition(p, v) ==
  CASE p = "truthy" -> v = TRUE
    [] p = "eq1"    -> v = 1
    [] p = "empty"  -> Len(v) = 0

\* ---------------------------------------------------------------- runtime

\* Every call of a component method, of a listener, of a component
\* expression or of a signal's write goes through call(h, f, x, y), which
\* hands it to the definition that models the callee.
RECURSIVE call(_, _, _, _)

render(h, c) == call(h, "render", c, Null)

destroy(h, c) == call(h, "destroy", c, Null)

\* a faulty call, which makes the call twice; C24 does not hold of it
replaceTwice(h, c, n) == call(call(h, "replace", c, n), "replace", c, n)

replace(h, c, n) == call(h, "replace", c, n)

append(h, c, n) == call(h, "append", c, n)

reload(h, c, newProps) == call(h, "reload", c, newProps)

build(h, env, tpl) == call(h, "build", env, tpl)

rerender(h, l) == call(h, "rerender", l, Null)

write(h, s, nv) == call(h, "write", s, nv)

\* a faulty placeholder, which is an element; C12 does not hold of it
visiblePlaceholder(h) == Alloc(h, [kind |-> "leaf", kids |-> <<>>, el |-> Null])

\* createEmptyComponent(): the invisible placeholder, a Text node ""
createEmptyComponent(h) ==
  LET h1 == createNode(h, "text", "") IN
  Alloc(h1, [kind |-> "empty", element |-> h1.ret])

\* isSameProps(a, b) of util/general: same number of own keys, and every key
\* of a has an Object.is-equal value in b (a key b lacks reads as undefined)
Undefined == -1

Get(o, k) == IF k \in DOMAIN o THEN o[k] ELSE Undefined

\* a faulty comparison, which finds no two objects alike; C13 does not hold
\* of it
neverSame(a, b) == FALSE

isSameProps(a, b) ==
  IF Cardinality(DOMAIN a) # Cardinality(DOMAIN b) THEN FALSE
  ELSE \A key \in DOMAIN a : Get(a, key) = Get(b, key)

\* hasSameProps(): propStore.prev && propStore.curr && isSameProps(prev, curr)
hasSameProps(c) == ~c.prev.void /\ ~c.curr.void /\ isSameProps(c.prev.val, c.curr.val)

\* a faulty isCustomComponent, which accepts an instance without props; C11
\* does not hold of it
anyInstance(c) == c.kind = "custom"

\* a faulty isCustomComponent, which accepts nothing; C10 does not hold of it
neverCustom(c) == FALSE

\* isCustomComponent(value): an object whose "props" is an object
isCustomComponent(c) == c.kind = "custom" /\ ~c.props.void

\* the instance the $ factory returns for props: its closure variables
dollar(h, serial, props) ==
  Alloc(h, [kind |-> "custom", serial |-> serial, props |-> props,
            prev |-> props, curr |-> props, hasRendered |-> FALSE,
            signalIndex |-> 0, signals |-> <<>>, unmounts |-> <<>>,
            currentListener |-> Null, unsubscribers |-> <<>>,
            lastRenderResult |-> Null,
            effectIndex |-> 0, effects |-> <<>>,
            mountRuns |-> 0, cleanupRuns |-> 0, renders |-> 0, destroyed |-> FALSE,
            effectLog |-> <<>>, effectCleanupRuns |-> 0, results |-> <<>>,
            cleaned |-> FALSE])

\* elementFactory(tag)(attributes)(...children)
elementFactory(h, kids) == Alloc(h, [kind |-> "leaf", kids |-> kids, el |-> Null])

\* the signal a render function holds in hook slot k
slot(h, env, k) == h.comps[env.owner].signals[k]

\* the object literal handed to a component factory, evaluated left to right
RECURSIVE propsOf(_, _, _, _, _)
propsOf(h, env, ps, i, acc) ==
  IF i > Len(ps) THEN [h EXCEPT !.ret = acc]
  ELSE
    LET p == ps[i] IN
    CASE p.e = "const" -> propsOf(h, env, ps, i + 1, acc @@ (p.key :> p.v))
      [] p.e = "item"  -> propsOf(h, env, ps, i + 1, acc @@ (p.key :> env.item))
      [] p.e = "read"  ->
           LET h1 == read(h, slot(h, env, p.v)) IN
           propsOf(h1, env, ps, i + 1, acc @@ (p.key :> h1.ret))

\* the children of an element expression, evaluated left to right
RECURSIVE children(_, _, _, _, _)
children(h, env, kids, i, acc) ==
  IF h.err THEN h
  ELSE IF i > Len(kids) THEN [h EXCEPT !.ret = acc]
  ELSE
    LET k == kids[i] IN
    CASE k.t = "text"   -> children(h, env, kids, i + 1, Append(acc, [k |-> "text", x |-> k.v]))
      [] k.t = "prop"   ->
           children(h, env, kids, i + 1,
                    Append(acc, [k |-> "text", x |-> ToString(Get(env.props.val, k.k))]))
      [] k.t = "item"   ->
           children(h, env, kids, i + 1, Append(acc, [k |-> "text", x |-> ToString(env.item)]))
      [] k.t = "id"     ->
           children(h, env, kids, i + 1, Append(acc, [k |-> "text", x |-> ToString(env.owner)]))
      [] k.t = "getter" ->
           children(h, env, kids, i + 1, Append(acc, [k |-> "getter", x |-> slot(h, env, k.s)]))
      [] k.t = "read"   ->
           LET h1 == read(h, slot(h, env, k.s)) IN
           children(h1, env, kids, i + 1, Append(acc, [k |-> "text", x |-> ToString(h1.ret)]))
      [] OTHER          ->
           LET h1 == build(h, env, k) IN
           children(h1, env, kids, i + 1, Append(acc, [k |-> "comp", x |-> h1.ret]))

\* --- $bind

bindRerender(h, b) ==
  LET component == h.comps[b].component IN
  IF component # Null
    THEN LET h1 == render(h, component) IN
         [h1 EXCEPT !.comps[b].outs = Append(@, h1.ret), !.ret = component]
    ELSE LET h1 == build(h, h.comps[b].env, h.comps[b].tpl) IN
         [h1 EXCEPT !.comps[b].component = h1.ret, !.comps[b].calls = @ + 1]

\* the steps of $bind, last first: each takes the heap the step before it
\* left (b is the primitive's own record; calls is history: how often
\* renderFn has been invoked)
\* a faulty $bind, which returns without emptying the accumulator and
\* without resetting the active listener; C35 does not hold of it
bindKeepsContext(h, env, tpl) ==
  LET rendered(h3, b) ==
        IF h3.err THEN h3
        ELSE [h3 EXCEPT !.comps[b].initialRender = h3.ret,
                        !.comps[b].outs = <<h3.ret>>,
                        !.comps[b].unsubscribers = h3.comps[env.owner].unsubscribers,
                        !.ret = b]
      built(h2, b) ==
        rendered(render([h2 EXCEPT !.comps[b].component = h2.ret,
                                   !.comps[b].calls = @ + 1], h2.ret), b)
      created(h0) ==
        built(build([h0 EXCEPT !.comps[env.owner].currentListener = h0.ret], env, tpl),
              h0.ret)
  IN
  created(Alloc(h, [kind |-> "bind", owner |-> env.owner, tpl |-> tpl, env |-> env,
                    component |-> Null, initialRender |-> Null,
                    unsubscribers |-> <<>>, outs |-> <<>>, destroyed |-> FALSE,
                    calls |-> 0]))

dollarBind(h, env, tpl) ==
  LET rendered(h3, b) ==
        IF h3.err THEN h3
        ELSE [h3 EXCEPT !.comps[b].initialRender = h3.ret,
                        !.comps[b].outs = <<h3.ret>>,
                        !.comps[b].unsubscribers = h3.comps[env.owner].unsubscribers,
                        !.comps[env.owner].unsubscribers = <<>>,
                        !.comps[env.owner].currentListener = Null,
                        !.ret = b]
      built(h2, b) ==
        rendered(render([h2 EXCEPT !.comps[b].component = h2.ret,
                                   !.comps[b].calls = @ + 1], h2.ret), b)
      created(h0) ==
        built(build([h0 EXCEPT !.comps[env.owner].currentListener = h0.ret], env, tpl),
              h0.ret)
  IN
  created(Alloc(h, [kind |-> "bind", owner |-> env.owner, tpl |-> tpl, env |-> env,
                    component |-> Null, initialRender |-> Null,
                    unsubscribers |-> <<>>, outs |-> <<>>, destroyed |-> FALSE,
                    calls |-> 0]))

bindRender(h, b) ==
  LET c == h.comps[b]
      rendered(h2) == [h2 EXCEPT !.comps[b].outs = Append(@, h2.ret)]
      rerendered(h1) == rendered(render(h1, h1.comps[b].component))
  IN
  IF c.component # Null
    THEN IF c.initialRender # Null
           THEN [h EXCEPT !.comps[b].initialRender = Null, !.ret = c.initialRender]
           ELSE rendered(render(h, c.component))
    ELSE rerendered(bindRerender(h, b))

bindDestroy(h, b) ==
  LET h1 == unsubscribeAll([h EXCEPT !.comps[b].destroyed = TRUE],
                           h.comps[b].unsubscribers, 1) IN
  IF h1.comps[b].component # Null THEN destroy(h1, h1.comps[b].component) ELSE h1

\* replace / append of $bind and of $if: if (component) component.replace(n)
delegateReplace(h, c, n) ==
  IF h.comps[c].component # Null THEN replace(h, h.comps[c].component, n) ELSE h

delegateAppend(h, c, n) ==
  IF h.comps[c].component # Null THEN append(h, h.comps[c].component, n) ELSE h

\* --- $if

\* the steps of rerender, last first: h1 is the heap after cond() is read,
\* h2 after the branch is chosen, h3 after replace, h4 after destroy (evals
\* is history: how often condition() has been called)
ifRerender(h, c) ==
  LET destroyed(h4, renderResult) ==
        [h4 EXCEPT !.comps[c].component = renderResult, !.ret = renderResult]
      replaced(h3, component, renderResult) ==
        destroyed(destroy(h3, component), renderResult)
      chosen(h2) ==
        LET renderResult == h2.ret
            component == h2.comps[c].component
        IN
        IF component # Null /\ component # renderResult
          THEN replaced(replace(h2, component, renderResult), component, renderResult)
          ELSE h2
      evaluated(h1) ==
        chosen(IF condition(h.comps[c].p, h1.ret)
                 THEN [h1 EXCEPT !.ret = h.comps[c].whenTrue]
               ELSE IF h.comps[c].whenFalse # Null
                 THEN [h1 EXCEPT !.ret = h.comps[c].whenFalse]
               ELSE createEmptyComponent(h1))
  IN evaluated(read([h EXCEPT !.comps[c].evals = @ + 1], h.comps[c].cond))

\* the steps of $if, last first: the two branch expressions are evaluated
\* (they are arguments of the call), then the primitive's record c is made
\* and rerender runs under currentListener
dollarIf(h, env, tpl) ==
  LET subscribed(h1, c) ==
        IF h1.err THEN h1
        ELSE [h1 EXCEPT !.comps[c].component = h1.ret,
                        !.comps[c].unsubscribers = h1.comps[env.owner].unsubscribers,
                        !.comps[env.owner].unsubscribers = <<>>,
                        !.comps[env.owner].currentListener = Null,
                        !.ret = c]
      created(h0) ==
        subscribed(ifRerender([h0 EXCEPT !.comps[env.owner].currentListener = h0.ret],
                              h0.ret),
                   h0.ret)
      second(hF, whenTrue) ==
        created(Alloc(hF, [kind |-> "if", owner |-> env.owner,
                           cond |-> slot(hF, env, tpl.s), p |-> tpl.p,
                           whenTrue |-> whenTrue, whenFalse |-> hF.ret,
                           component |-> Null, unsubscribers |-> <<>>,
                           destroyed |-> FALSE, evals |-> 0]))
      first(hT) ==
        second(IF tpl.whenFalse.t = "none" THEN [hT EXCEPT !.ret = Null]
               ELSE build(hT, env, tpl.whenFalse),
               hT.ret)
  IN first(build(h, env, tpl.whenTrue))

\* a faulty render, which runs rerender first whatever component is; C31
\* does not hold of it
ifRenderAgain(h, c) ==
  LET rerendered(h1) == render([h1 EXCEPT !.comps[c].component = h1.ret], h1.ret) IN
  rerendered(ifRerender(h, c))

ifRender(h, c) ==
  LET rerendered(h1) == render([h1 EXCEPT !.comps[c].component = h1.ret], h1.ret) IN
  IF h.comps[c].component # Null THEN render(h, h.comps[c].component)
  ELSE rerendered(ifRerender(h, c))

ifDestroy(h, c) ==
  LET h1 == unsubscribeAll([h EXCEPT !.comps[c].destroyed = TRUE],
                           h.comps[c].unsubscribers, 1) IN
  IF h1.comps[c].component # Null THEN destroy(h1, h1.comps[c].component) ELSE h1

\* --- $for

\* items().map((item) => renderItem(item))
RECURSIVE mapItems(_, _, _, _, _, _)
mapItems(h, env, tpl, items, i, acc) ==
  IF h.err THEN h
  ELSE IF i > Len(items) THEN [h EXCEPT !.ret = acc]
  ELSE LET h1 == build(h, [env EXCEPT !.item = items[i]], tpl) IN
       mapItems(h1, env, tpl, items, i + 1, Append(acc, h1.ret))

\* the positional loop of rerender, from index i (1-based) with the
\* reconciled list acc (newComponentsList)
RECURSIVE reconcile(_, _, _, _, _)
reconcile(h, f, newComponents, i, acc) ==
  LET components == h.comps[f].components
      length == IF Len(newComponents) > Len(components)
                  THEN Len(newComponents) ELSE Len(components)
  IN
  IF h.err THEN h
  ELSE IF i > length THEN [h EXCEPT !.ret = acc]
  ELSE IF i <= Len(newComponents) /\ i <= Len(components) THEN
    LET prev == components[i]
        next == newComponents[i]
    IN
    IF /\ isCustomComponent(h.comps[prev])
       /\ isCustomComponent(h.comps[next])
       /\ h.comps[prev].serial = h.comps[next].serial
      THEN reconcile(reload(h, prev, h.comps[next].props), f, newComponents, i + 1,
                     Append(acc, prev))
      ELSE reconcile(replace(h, prev, next), f, newComponents, i + 1, Append(acc, next))
  ELSE IF i <= Len(newComponents) THEN
    IF acc = <<>> THEN [h EXCEPT !.err = TRUE, !.ret = Null]
    ELSE reconcile(append(h, Last(acc), newComponents[i]), f, newComponents, i + 1,
                   Append(acc, newComponents[i]))
  ELSE reconcile(destroy(h, components[i]), f, newComponents, i + 1, acc)

\* a faulty rerender, which runs the positional loop also when no
\* component is rendered yet; C37 does not hold of it
forRerenderAlways(h, f) ==
  LET stored(h4) ==
        IF h4.err THEN h4 ELSE [h4 EXCEPT !.comps[f].components = h4.ret]
      reconciled(h3) ==
        stored(IF h3.err THEN h3
               ELSE IF Len(h3.ret) = 0
                 THEN LET e == createEmptyComponent(h3) IN [e EXCEPT !.ret = <<e.ret>>]
                 ELSE h3)
      mapped(h2) ==
        reconciled(IF h2.err THEN h2 ELSE reconcile(h2, f, h2.ret, 1, <<>>))
      itemsRead(h1) ==
        mapped(mapItems(h1, h.comps[f].env, h.comps[f].tpl, h1.ret, 1, <<>>))
  IN itemsRead(read(h, h.comps[f].items))

\* the steps of rerender, last first: h1 is the heap after items() is read,
\* h2 after the builder ran for every item, h3 after the positional loop,
\* h4 after the placeholder is made for an empty list
forRerender(h, f) ==
  LET stored(h4) ==
        IF h4.err THEN h4 ELSE [h4 EXCEPT !.comps[f].components = h4.ret]
      reconciled(h3) ==
        stored(IF h3.err THEN h3
               ELSE IF Len(h3.ret) = 0
                 THEN LET e == createEmptyComponent(h3) IN [e EXCEPT !.ret = <<e.ret>>]
                 ELSE h3)
      mapped(h2) ==
        reconciled(IF h2.err THEN h2
                   ELSE IF Len(h2.comps[f].components) > 0
                     THEN reconcile(h2, f, h2.ret, 1, <<>>)
                     ELSE h2)
      itemsRead(h1) ==
        mapped(mapItems(h1, h.comps[f].env, h.comps[f].tpl, h1.ret, 1, <<>>))
  IN itemsRead(read(h, h.comps[f].items))

dollarFor(h, env, tpl) ==
  LET subscribed(h1, f) ==
        IF h1.err THEN h1
        ELSE [h1 EXCEPT !.comps[f].unsubscribers = h1.comps[env.owner].unsubscribers,
                        !.comps[env.owner].unsubscribers = <<>>,
                        !.comps[env.owner].currentListener = Null,
                        !.ret = f]
      created(h0) ==
        subscribed(forRerender([h0 EXCEPT !.comps[env.owner].currentListener = h0.ret],
                               h0.ret),
                   h0.ret)
  IN
  created(Alloc(h, [kind |-> "for", owner |-> env.owner, items |-> slot(h, env, tpl.s),
                    tpl |-> tpl.item, env |-> env, components |-> <<>>,
                    unsubscribers |-> <<>>, destroyed |-> FALSE]))

\* components.forEach((component) => frag.appendChild(component.render()))
RECURSIVE renderInto(_, _, _, _)
renderInto(h, frag, cs, i) ==
  IF h.err \/ i > Len(cs) THEN h
  ELSE LET h1 == render(h, cs[i]) IN
       renderInto(appendChild(h1, frag, h1.ret), frag, cs, i + 1)

forRender(h, f) ==
  LET filled(h3, frag) == [h3 EXCEPT !.ret = frag]
      ready(h2, frag) == filled(renderInto(h2, frag, h2.comps[f].components, 1), frag)
      created(h1) ==
        ready(IF Len(h1.comps[f].components) = 0
                THEN LET e == createEmptyComponent(h1) IN
                     [e EXCEPT !.comps[f].components = <<e.ret>>]
                ELSE h1,
              h1.ret)
  IN created(createNode(h, "frag", ""))

\* components.forEach((component) => component.destroy())
RECURSIVE destroyEach(_, _, _)
destroyEach(h, cs, i) ==
  IF h.err \/ i > Len(cs) THEN h ELSE destroyEach(destroy(h, cs[i]), cs, i + 1)

forDestroy(h, f) ==
  LET h1 == unsubscribeAll([h EXCEPT !.comps[f].destroyed = TRUE],
                           h.comps[f].unsubscribers, 1) IN
  destroyEach(h1, h1.comps[f].components, 1)

forReplace(h, f, n) ==
  LET cs == h.comps[f].components IN
  IF Len(cs) > 0
    THEN LET h1 == replace(h, cs[1], n) IN destroyEach(h1, h1.comps[f].components, 1)
    ELSE h

forAppend(h, f, n) ==
  LET cs == h.comps[f].components IN
  IF Len(cs) > 0 THEN append(h, Last(cs), n) ELSE h

\* --- the $ component instance

\* a faulty $signal, which makes a new signal on every call; C18 does not
\* hold of it
freshSignal(h, c, initialValue) ==
  LET h1 == signalFactory(h, c, initialValue) IN
  [h1 EXCEPT !.comps[c].signals = Append(@, h1.ret), !.comps[c].signalIndex = @ + 1]

\* a faulty $signal, which hands out the signal another instance of the
\* definition holds in the slot; C28 does not hold of it
sharedSignal(h, c, initialValue) ==
  LET i      == h.comps[c].signalIndex
      others == {d \in DOMAIN h.comps :
                   /\ d # c
                   /\ h.comps[d].kind = "custom"
                   /\ h.comps[d].serial = h.comps[c].serial
                   /\ Len(h.comps[d].signals) > i}
  IN
  IF i < Len(h.comps[c].signals)
    THEN [h EXCEPT !.comps[c].signalIndex = i + 1]
  ELSE IF others # {}
    THEN [h EXCEPT !.comps[c].signals =
                      Append(@, h.comps[CHOOSE d \in others : TRUE].signals[i + 1]),
                   !.comps[c].signalIndex = i + 1]
  ELSE LET h1 == signalFactory(h, c, initialValue) IN
       [h1 EXCEPT !.comps[c].signals = Append(@, h1.ret),
                  !.comps[c].signalIndex = i + 1]

\* $signal(initialValue): the signal of the next hook slot, created on the
\* first pass
dollarSignal(h, c, initialValue) ==
  LET i == h.comps[c].signalIndex IN
  IF i < Len(h.comps[c].signals)
    THEN [h EXCEPT !.comps[c].signalIndex = i + 1]
    ELSE LET h1 == signalFactory(h, c, initialValue) IN
         [h1 EXCEPT !.comps[c].signals = Append(@, h1.ret),
                    !.comps[c].signalIndex = i + 1]

RECURSIVE signalHooks(_, _, _, _)
signalHooks(h, c, sg, i) ==
  IF i > Len(sg) THEN h ELSE signalHooks(dollarSignal(h, c, sg[i].init), c, sg, i + 1)

\* the writes a mount effect performs before it returns or first awaits
RECURSIVE writeEach(_, _, _, _)
writeEach(h, c, ws, i) ==
  IF h.err \/ i > Len(ws) THEN h
  ELSE writeEach(write(h, h.comps[c].signals[ws[i].s], ws[i].nv), c, ws, i + 1)

\* a faulty $mount, which runs the effect on every render; C15 does not hold
\* of it
mountAgain(h, c, m) ==
  IF ~m.has THEN h ELSE [h EXCEPT !.comps[c].mountRuns = @ + 1]

\* $mount(effect): the effect runs unless the instance has rendered; what it
\* does after its first await is left pending; its cleanup joins unmounts
dollarMount(h, c, m) ==
  IF ~m.has \/ h.comps[c].hasRendered THEN h
  ELSE
    LET h1 == writeEach([h EXCEPT !.comps[c].mountRuns = @ + 1,
                                  !.comps[c].cleaned = FALSE], c, m.sync, 1)
        h2 == IF m.async # <<>>
                THEN [h1 EXCEPT !.pending = Append(@, [c |-> c, writes |-> m.async])]
                ELSE h1
    IN
    IF m.cleanup
      THEN [h2 EXCEPT !.comps[c].unmounts = Append(@, Len(@) + 1)]
      ELSE h2

\* isSameDependencies(a, b) of util/general
isSameDependencies(a, b) ==
  IF Len(a) # Len(b) THEN FALSE ELSE \A index \in DOMAIN a : a[index] = b[index]

\* the dependency array of an $effect call: the props it lists
dependenciesOf(h, c, e) ==
  Tuple([i \in DOMAIN e.deps |-> Get(h.comps[c].curr.val, e.deps[i])])

\* $effect(effect, dependencies), the k-th $effect call of this render.
\* effectIndex is the closure's counter; effectLog is history: the render
\* pass, the call position, the dependencies passed and whether the
\* callback ran.
dollarEffect(h, c, e, k) ==
  LET i            == h.comps[c].effectIndex
      dependencies == dependenciesOf(h, c, e)
      entry(ran)   == [render |-> h.comps[c].renders + 1, slot |-> k,
                       deps |-> dependencies, ran |-> ran]
  IN
  IF i < Len(h.comps[c].effects)
    THEN
      LET oldEffect == h.comps[c].effects[i + 1] IN
      IF ~isSameDependencies(oldEffect.dependencies, dependencies)
        THEN
          LET h1 == IF oldEffect.unmount # Null
                      THEN [h EXCEPT !.comps[c].unmounts = Without(@, oldEffect.unmount),
                                     !.comps[c].effectCleanupRuns = @ + 1]
                      ELSE h
              u  == Len(h1.comps[c].unmounts) + Len(h1.comps[c].effectLog) + 1
              h2 == IF oldEffect.cleanup
                      THEN [h1 EXCEPT !.comps[c].unmounts = Append(@, u),
                                      !.comps[c].effects[i + 1].unmount = u]
                      ELSE h1
          IN [h2 EXCEPT !.comps[c].effectIndex = i + 1,
                        !.comps[c].effectLog = Append(@, entry(TRUE))]
        ELSE [h EXCEPT !.comps[c].effectIndex = i + 1,
                       !.comps[c].effectLog = Append(@, entry(FALSE))]
    ELSE
      LET u  == Len(h.comps[c].unmounts) + Len(h.comps[c].effectLog) + 1
          h1 == IF e.cleanup THEN [h EXCEPT !.comps[c].unmounts = Append(@, u)] ELSE h
      IN [h1 EXCEPT !.comps[c].effects =
                       Append(@, [dependencies |-> dependencies, cleanup |-> e.cleanup,
                                  unmount |-> IF e.cleanup THEN u ELSE Null]),
                    !.comps[c].effectIndex = i + 1,
                    !.comps[c].effectLog = Append(@, entry(TRUE))]

RECURSIVE effectHooks(_, _, _, _)
effectHooks(h, c, es, k) ==
  IF k > Len(es) THEN h ELSE effectHooks(dollarEffect(h, c, es[k], k), c, es, k + 1)

\* renderer(propStore.curr, tools): the hooks in call order, then the
\* component expression the render function returns
renderer(h, c) ==
  LET def == Defs[h.comps[c].serial]
      h1  == signalHooks(h, c, def.signals, 1)
      h2  == dollarMount(h1, c, def.mount)
      h3  == effectHooks(h2, c, EffectsOf(def), 1)
      h4  == build(h3, [owner |-> c, props |-> h.comps[c].curr, item |-> Null], def.body)
  IN [h4 EXCEPT !.comps[c].renders = @ + 1]

customRender(h, c) ==
  LET rendered(h2) ==
        IF h2.err THEN h2
        ELSE [h2 EXCEPT !.comps[c].lastRenderResult = h2.ret,
                        !.comps[c].results = Append(@, h2.ret)]
      returned(h1) == rendered(render([h1 EXCEPT !.comps[c].hasRendered = TRUE], h1.ret))
  IN returned(renderer([h EXCEPT !.comps[c].signalIndex = 0], c))

\* onDestroy(): lastRenderResult?.remove(); unmounts.forEach(unmount => unmount())
onDestroy(h, c) ==
  LET n  == h.comps[c].lastRenderResult
      h1 == IF n # Null THEN domRemove(h, n) ELSE h
  IN [h1 EXCEPT !.comps[c].cleanupRuns = @ + Len(h.comps[c].unmounts),
                !.comps[c].cleaned = @ \/ h.comps[c].unmounts # <<>>]

\* destroy: onDestroy (destroyed is history: destroy() has been called;
\* cleaned: a cleanup was invoked after the last run of the mount effect)
customDestroy(h, c) == onDestroy([h EXCEPT !.comps[c].destroyed = TRUE], c)

customReload(h, c, newProps) ==
  LET h1  == [h EXCEPT !.comps[c].signalIndex = 0,
                       !.comps[c].prev = h.comps[c].curr,
                       !.comps[c].curr = newProps]
      old == h1.comps[c].lastRenderResult
      rendered(h2) == replaceWith(h2, old, h2.ret)
  IN
  IF old # Null /\ ~hasSameProps(h1.comps[c])
    THEN rendered(customRender(h1, c))
    ELSE h1

customReplace(h, c, n) ==
  LET replaced(h2) == IF h2.err THEN h2 ELSE onDestroy(h2, c)
      rendered(h1) ==
        replaced(IF h1.comps[c].lastRenderResult # Null
                   THEN replaceWith(h1, h1.comps[c].lastRenderResult, h1.ret)
                   ELSE h1)
  IN rendered(render(h, n))

\* Node.parentElement: the parent when it is an element
parentElement(ns, n) ==
  IF ns[n].parent # Null /\ ns[ns[n].parent].kind = "el" THEN ns[n].parent ELSE Null

\* a faulty append, which ends with onDestroy() as replace does; C26 does
\* not hold of it
appendAndDestroy(h, c, n) ==
  LET h1 == render(h, n)
      at == h1.comps[c].lastRenderResult
  IN
  IF ~h1.err /\ at # Null /\ parentElement(h1.nodes, at) # Null
    THEN onDestroy(appendChild(h1, parentElement(h1.nodes, at), h1.ret), c)
    ELSE onDestroy(h1, c)

customAppend(h, c, n) ==
  LET h1 == render(h, n)
      at == h1.comps[c].lastRenderResult
  IN
  IF ~h1.err /\ at # Null /\ parentElement(h1.nodes, at) # Null
    THEN appendChild(h1, parentElement(h1.nodes, at), h1.ret)
    ELSE h1

\* --- intrinsic elements

\* childrenArray.forEach in render: components are rendered, getters are
\* called and shown as text, anything else is shown as text
RECURSIVE renderChildren(_, _, _, _)
renderChildren(h, newEl, kids, i) ==
  IF h.err \/ i > Len(kids) THEN h
  ELSE
    LET k  == kids[i]
        h1 == CASE k.k = "comp"   -> render(h, k.x)
                [] k.k = "getter" -> LET r == read(h, k.x) IN createNode(r, "text", ToString(r.ret))
                [] OTHER          -> createNode(h, "text", k.x)
    IN renderChildren(appendChild(h1, newEl, h1.ret), newEl, kids, i + 1)

\* render(): a new element, its children appended, the previous element
\* (if any) replaced by it, and el set to it
leafRender(h, c) ==
  LET replaced(h3, newEl) ==
        IF h3.err THEN h3 ELSE [h3 EXCEPT !.comps[c].el = newEl, !.ret = newEl]
      filled(h2, newEl) ==
        replaced(IF h2.comps[c].el # Null THEN replaceWith(h2, h2.comps[c].el, newEl)
                 ELSE h2,
                 newEl)
      created(h1) == filled(renderChildren(h1, h1.ret, h1.comps[c].kids, 1), h1.ret)
  IN created(createNode(h, "el", ""))

leafDestroy(h, c) == IF h.comps[c].el # Null THEN domRemove(h, h.comps[c].el) ELSE h

leafReplace(h, c, n) ==
  LET h1 == render(h, n) IN
  IF h1.comps[c].el # Null THEN replaceWith(h1, h1.comps[c].el, h1.ret) ELSE h1

leafAppend(h, c, n) ==
  LET h1 == render(h, n)
      el == h1.comps[c].el
  IN
  IF ~h1.err /\ el # Null /\ parentElement(h1.nodes, el) # Null
    THEN appendChild(h1, parentElement(h1.nodes, el), h1.ret)
    ELSE h1

\* --- the placeholder's methods

emptyReplace(h, c, n) ==
  LET h1 == render(h, n) IN replaceWith(h1, h1.comps[c].element, h1.ret)

emptyAppend(h, c, n) ==
  LET h1 == render(h, n) IN appendChild(h1, h1.comps[c].element, h1.ret)

\* --- the capability set, by variant

renderOf(h, c) ==
  LET k  == h.comps[c].kind
      h0 == Logged(h, "render", c, Null)
  IN
  CASE k = "leaf"   -> leafRender(h0, c)
    [] k = "custom" -> customRender(h0, c)
    [] k = "bind"   -> bindRender(h0, c)
    [] k = "if"     -> ifRender(h0, c)
    [] k = "for"    -> forRender(h0, c)
    [] k = "empty"  -> [h0 EXCEPT !.ret = h0.comps[c].element]

destroyOf(h, c) ==
  LET k  == h.comps[c].kind
      h0 == Logged(h, "destroy", c, Null)
  IN
  CASE k = "leaf"   -> leafDestroy(h0, c)
    [] k = "custom" -> customDestroy(h0, c)
    [] k = "bind"   -> bindDestroy(h0, c)
    [] k = "if"     -> ifDestroy(h0, c)
    [] k = "for"    -> forDestroy(h0, c)
    [] k = "empty"  -> domRemove(h0, h0.comps[c].element)

replaceOf(h, c, n) ==
  LET k  == h.comps[c].kind
      h0 == Logged(h, "replace", c, n)
  IN
  CASE k = "leaf"   -> leafReplace(h0, c, n)
    [] k = "custom" -> customReplace(h0, c, n)
    [] k = "bind"   -> delegateReplace(h0, c, n)
    [] k = "if"     -> delegateReplace(h0, c, n)
    [] k = "for"    -> forReplace(h0, c, n)
    [] k = "empty"  -> emptyReplace(h0, c, n)

appendOf(h, c, n) ==
  LET k  == h.comps[c].kind
      h0 == Logged(h, "append", c, n)
  IN
  CASE k = "leaf"   -> leafAppend(h0, c, n)
    [] k = "custom" -> customAppend(h0, c, n)
    [] k = "bind"   -> delegateAppend(h0, c, n)
    [] k = "if"     -> delegateAppend(h0, c, n)
    [] k = "for"    -> forAppend(h0, c, n)
    [] k = "empty"  -> emptyAppend(h0, c, n)

\* a component expression, evaluated: the factory or primitive it calls
buildOf(h, env, tpl) ==
  CASE tpl.t = "leaf"   -> LET h1 == children(h, env, tpl.kids, 1, <<>>) IN
                           IF h1.err THEN h1 ELSE elementFactory(h1, h1.ret)
    [] tpl.t = "custom" -> LET h1 == propsOf(h, env, tpl.props, 1, <<>>) IN
                           dollar(h1, tpl.def, [void |-> tpl.void, val |-> h1.ret])
    [] tpl.t = "bind"   -> dollarBind(h, env, tpl.body)
    [] tpl.t = "if"     -> dollarIf(h, env, tpl)
    [] tpl.t = "for"    -> dollarFor(h, env, tpl)

\* subscribe(listener), of the util object $signal returns
subscribe(h, s, l) == [h EXCEPT !.sigs[s].listeners = setAdd(@, l)]

\* a listener the application handed to subscribe: called with the value,
\* it writes nv to the signal when the value is one of when
listenerOf(h, l) ==
  LET cb == h.comps[l] IN
  IF h.sigs[cb.sig].value \in cb.when THEN write(h, cb.sig, cb.nv) ELSE h

\* a listener: the rerender closure a primitive registers, or a function
\* handed to subscribe
rerenderOf(h, l) ==
  LET k == h.comps[l].kind IN
  CASE k = "bind"     -> bindRerender(h, l)
    [] k = "if"       -> ifRerender(h, l)
    [] k = "for"      -> forRerender(h, l)
    [] k = "callback" -> listenerOf(h, l)

\* a faulty forEach, which visits the listeners last to first; C19 does not
\* hold of it
RECURSIVE notifyDown(_, _, _)
notifyDown(h, s, p) ==
  IF h.err \/ p < 1 THEN h
  ELSE
    LET l == h.sigs[s].listeners[p] IN
    IF l = Null THEN notifyDown(h, s, p - 1)
    ELSE notifyDown(rerender(Logged(h, "listener", l, s), l), s, p - 1)

notifyBackwards(h, s, i) == notifyDown(h, s, Len(h.sigs[s].listeners))

\* a faulty forEach, which throws when the set has grown while a listener
\* ran, so that the write making the pass is never completed; C38 does not
\* hold of it
RECURSIVE notifyGivingUp(_, _, _)
notifyGivingUp(h, s, i) ==
  IF h.err \/ i > Len(h.sigs[s].listeners) THEN h
  ELSE
    LET l == h.sigs[s].listeners[i]
        invoked(h1) ==
          IF Len(h1.sigs[s].listeners) > Len(h.sigs[s].listeners)
            THEN [h1 EXCEPT !.err = TRUE]
            ELSE notifyGivingUp(h1, s, i + 1)
    IN
    IF l = Null THEN notifyGivingUp(h, s, i + 1)
    ELSE invoked(rerender(Logged(h, "listener", l, s), l))

\* the instances whose signal context has an active listener or a
\* non-empty unsubscriber accumulator
signalCtx(h) ==
  {c \in DOMAIN h.comps :
     /\ h.comps[c].kind = "custom"
     /\ (h.comps[c].currentListener # Null \/ h.comps[c].unsubscribers # <<>>)}

\* listeners.forEach((listener) => listener(value)), from position i; the
\* log records, at each invocation, how many signal contexts are in use
RECURSIVE notify(_, _, _)
notify(h, s, i) ==
  IF h.err \/ i > Len(h.sigs[s].listeners) THEN h
  ELSE
    LET l == h.sigs[s].listeners[i] IN
    IF l = Null THEN notify(h, s, i + 1)
    ELSE notify(rerender(Logged(Logged(h, "context", s, Cardinality(signalCtx(h))),
                                "listener", l, s), l), s, i + 1)

\* a faulty write, which only assigns when a pass of the signal is running;
\* C30 does not hold of it
writeUnlessRunning(h, s, nv) ==
  LET h1 == Logged([h EXCEPT !.sigs[s].value = newValueOf(nv, h.sigs[s].value),
                             !.sigs[s].hist = Append(@, nv)],
                   "write", s, Null)
      running == \E i \in DOMAIN h.log :
                    /\ h.log[i].op = "write" /\ h.log[i].c = s
                    /\ \A r \in DOMAIN h.log :
                          r > i => ~(h.log[r].op = "written" /\ h.log[r].c = s)
  IN Logged(IF running THEN h1 ELSE notify(h1, s, 1), "written", s, Null)

\* write(newValue)
writeOf(h, s, nv) ==
  LET h1 == Logged([h EXCEPT !.sigs[s].value = newValueOf(nv, h.sigs[s].value),
                             !.sigs[s].hist = Append(@, nv)],
                   "write", s, Null)
  IN Logged(notify(h1, s, 1), "written", s, Null)

\* an exception thrown earlier in the handler has unwound every caller
call(h, f, x, y) ==
  IF h.err THEN h
  ELSE
    CASE f = "render"   -> renderOf(h, x)
      [] f = "destroy"  -> destroyOf(h, x)
      [] f = "replace"  -> replaceOf(h, x, y)
      [] f = "append"   -> appendOf(h, x, y)
      [] f = "reload"   -> customReload(Logged(h, "reload", x, Null), x, y)
      [] f = "build"    -> buildOf(h, x, y)
      [] f = "rerender" -> rerenderOf(h, x)
      [] f = "write"    -> writeOf(h, x, y)

\* ------------------------------------------------------------- the page

\* the heap a handler starts from
Heap ==
  [comps |-> comps, sigs |-> sigs, nodes |-> nodes, pending |-> pending,
   overlap |-> overlap, log |-> <<>>, err |-> FALSE, ret |-> Null]

\* the heap a handler leaves behind; no forEach is running any more, so the
\* holes of the listener sets are dropped
Settle(h) ==
  /\ comps' = h.comps
  /\ sigs' = Tuple([s \in DOMAIN h.sigs |-> [h.sigs[s] EXCEPT !.listeners = Members(@)]])
  /\ nodes' = h.nodes
  /\ pending' = h.pending
  /\ log' = h.log
  /\ err' = h.err
  /\ overlap' = h.overlap

\* the values the handlers of the owning component write to signal s
WritesOf(s) ==
  LET o == sigs[s].owner IN
  Defs[comps[o].serial].signals[IndexOf(comps[o].signals, s)].writes

Init ==
  /\ comps = <<>>
  /\ sigs = <<>>
  /\ nodes = <<Node("el", "")>>
  /\ log = <<>>
  /\ err = FALSE
  /\ root = Null
  /\ ops = 0
  /\ pending = <<>>
  /\ overlap = FALSE
  /\ destroys = 0
  /\ last = [op |-> "none", x |-> Null, nv |-> Val(Null)]

\* renderRoot(element, App()): the page's entry point
RenderRoot(app) ==
  /\ root = Null
  /\ LET rendered(h2) == Settle(appendChild(h2, 1, h2.ret))
         made(h1) ==
           /\ rendered(render(h1, h1.ret))
           /\ root' = h1.ret
           /\ last' = [op |-> "renderRoot", x |-> h1.ret, nv |-> Val(Null)]
     IN made(dollar(Heap, app, [void |-> TRUE, val |-> <<>>]))
  /\ UNCHANGED <<ops, destroys>>

\* an event handler (or any holder of the setter) writes a signal
Write(s, nv) ==
  /\ root # Null
  /\ ops < MaxOps
  /\ Allowed(nv, sigs[s].value)
  /\ Settle(write(Heap, s, nv))
  /\ last' = [op |-> "write", x |-> s, nv |-> nv]
  /\ ops' = ops + 1
  /\ UNCHANGED <<root, destroys>>

\* the rest of a mount effect runs: what fetchTodos does after its awaits
Resume ==
  /\ pending # <<>>
  /\ LET p == Head(pending) IN
     Settle(writeEach([Heap EXCEPT !.pending = Tail(pending)], p.c, p.writes, 1))
  /\ last' = [op |-> "resume", x |-> Head(pending).c, nv |-> Val(Null)]
  /\ UNCHANGED <<root, ops, destroys>>

\* the application calls destroy() on a component it holds
Destroy(c) ==
  /\ root # Null
  /\ ops < MaxOps
  /\ destroys < MaxDestroys
  /\ comps[c].kind \in {"custom", "bind", "if", "for"}
  /\ Settle(destroy(Heap, c))
  /\ last' = [op |-> "destroy", x |-> c, nv |-> Val(Null)]
  /\ destroys' = destroys + 1
  /\ ops' = ops + 1
  /\ root' = root

Next ==
  \/ \E app \in Apps : RenderRoot(app)
  \/ \E s \in DOMAIN sigs : \E nv \in WritesOf(s) : Write(s, nv)
  \/ Resume
  \/ \E c \in DOMAIN comps : Destroy(c)

Spec == Init /\ [][Next]_vars

\* ------------------------------------------------------------ properties
\* log is the record of the handler that ran last: a "listener" entry for
\* every listener a notification pass invoked (c the listener, a the signal),
\* a "write" entry for every pass, and an entry for every component method
\* called (c the component it was called on).

SetOf(seq) == {seq[i] : i \in DOMAIN seq}

\* how often the pass of signal s invoked listener l
Invocations(lg, l, s) ==
  Cardinality({i \in DOMAIN lg : lg[i].op = "listener" /\ lg[i].c = l /\ lg[i].a = s})

\* the notification passes of signal s
Passes(lg, s) == Cardinality({i \in DOMAIN lg : lg[i].op = "write" /\ lg[i].c = s})

\* the calls of method op on the components of targets
Calls(lg, op, targets) ==
  Cardinality({i \in DOMAIN lg : lg[i].op = op /\ lg[i].c \in targets})

\* what a write should leave in the signal, by the contract of write: the
\* value handed over, or the updater applied to the previous value
ResultOf(nv, prev) ==
  IF nv.k = "val" THEN nv.v
  ELSE IF nv.k = "not" THEN ~prev
  ELSE IF nv.f = "inc" THEN prev + 1
  ELSE prev - 1

\* the value after the writes of hist, starting from init
RECURSIVE Replay(_, _)
Replay(init, hist) ==
  IF Len(hist) = 0 THEN init
  ELSE ResultOf(Last(hist), Replay(init, SubSeq(hist, 1, Len(hist) - 1)))

\* the value signal s held before its last write
Before(s) == Replay(sigs[s].init, SubSeq(sigs[s].hist, 1, Len(sigs[s].hist) - 1))

\* the string an element rendered from a single text child shows
ShownText(ns, n) == ns[ns[n].kids[1]].text

\* the nodes of component c that are in the document
RECURSIVE Shown(_, _, _)
Shown(cs, ns, c) ==
  LET r == cs[c] IN
  CASE r.kind = "leaf"   -> IF r.el # Null /\ Attached(ns, r.el) THEN {r.el} ELSE {}
    [] r.kind = "empty"  -> IF Attached(ns, r.element) THEN {r.element} ELSE {}
    [] r.kind = "custom" -> IF r.lastRenderResult # Null /\ Attached(ns, r.lastRenderResult)
                              THEN {r.lastRenderResult} ELSE {}
    [] r.kind = "for"    -> UNION {Shown(cs, ns, r.components[i]) : i \in DOMAIN r.components}
    [] OTHER             -> IF r.component = Null THEN {} ELSE Shown(cs, ns, r.component)

\* C1: read() of a signal returns the result of the most recent write to it
\* (the value written, or the updater applied to the value before), and the
\* initial value when it was never written; so after write(v1), write(v2)
\* it returns v2.
C1_ReadReturnsLastWrite ==
  \A s \in DOMAIN sigs : read(Heap, s).ret = Replay(sigs[s].init, sigs[s].hist)

\* a signal written v1 and then a different v2, read() returning v2
C1_Witness ==
  \E s \in DOMAIN sigs :
     LET n == Len(sigs[s].hist) IN
     /\ n >= 2
     /\ sigs[s].hist[n - 1].k = "val"
     /\ sigs[s].hist[n].k = "val"
     /\ sigs[s].hist[n - 1].v # sigs[s].hist[n].v
     /\ read(Heap, s).ret = sigs[s].hist[n].v

\* C2: a write makes one notification pass, in which no listener is invoked
\* twice and every listener subscribed when the write was made (and still
\* subscribed when it returns) is invoked exactly once, however often the
\* listener read the signal and whether or not the value changed.
C2_OncePerWrite ==
  [][last'.op = "write" =>
       LET s == last'.x IN
       /\ Passes(log', s) = 1
       /\ \A l \in DOMAIN comps' : Invocations(log', l, s) <= 1
       /\ \A l \in SetOf(sigs[s].listeners) :
             Has(sigs'[s].listeners, l) => Invocations(log', l, s) = 1]_vars

\* a write of the value the signal already held, notifying once a listener
\* that read the signal twice in its tracked evaluation
C2_Witness ==
  /\ last.op = "write"
  /\ Before(last.x) = sigs[last.x].value
  /\ \E l \in DOMAIN comps :
        /\ comps[l].kind = "bind"
        /\ Invocations(log, l, last.x) = 1
        /\ Cardinality({i \in DOMAIN comps[l].unsubscribers :
                           comps[l].unsubscribers[i].s = last.x}) >= 2

\* the $bind primitives of the mounted root whose callback renders an
\* element showing S.read(), as README's div()(`Hi ${myName()}`) does
ReadBinds ==
  IF root = Null \/ comps[root].destroyed THEN {}
  ELSE {b \in DOMAIN comps :
          /\ comps[b].kind = "bind"
          /\ comps[b].owner = root
          /\ ~comps[b].destroyed
          /\ Len(comps[b].tpl.kids) = 1
          /\ comps[b].tpl.kids[1].t = "read"}

\* C3: a $bind rendering f(S.read()) has, after n writes to S, had its live
\* node replaced n times, and the live node shows f of the value of S.
C3_BindShowsFinalValue ==
  \A b \in ReadBinds :
     LET s == comps[root].signals[comps[b].tpl.kids[1].s]
         live == AttachedOf(nodes, comps[b].outs)
     IN
     /\ Len(comps[b].outs) - 1 = Len(sigs[s].hist)
     /\ \E i \in live : ShownText(nodes, comps[b].outs[i]) = ToString(sigs[s].value)

\* C4: no two nodes rendered for one $bind are ever in the document together,
\* and a $bind that had its node in the document when a write notified it,
\* and that the write did not replace or destroy, has exactly one node in
\* the document after the write.
C4_OneLiveNode ==
  [][/\ ~overlap'
     /\ \A b \in DOMAIN comps' :
           comps'[b].kind = "bind" =>
              Cardinality(AttachedOf(nodes', comps'[b].outs)) <= 1
     /\ last'.op = "write" =>
          \A b \in DOMAIN comps :
             (/\ comps[b].kind = "bind"
              /\ Cardinality(AttachedOf(nodes, comps[b].outs)) = 1
              /\ Invocations(log', b, last'.x) = 1
              /\ Calls(log', "replace", {b}) = 0
              /\ Calls(log', "destroy", {b}) = 0)
               => Cardinality(AttachedOf(nodes', comps'[b].outs)) = 1]_vars

\* a mounted $bind re-rendered by a write: two nodes rendered, one attached
C4_Witness ==
  /\ last.op = "write"
  /\ \E b \in DOMAIN comps :
        /\ comps[b].kind = "bind"
        /\ Invocations(log, b, last.x) = 1
        /\ Len(comps[b].outs) >= 2
        /\ Cardinality(AttachedOf(nodes, comps[b].outs)) = 1

\* C5: once destroy() was called on a $bind, $if or $for, no write invokes
\* its re-render listener.
C5_DestroyedPrimitiveSilent ==
  [][\A l \in DOMAIN comps :
        (comps[l].kind \in {"bind", "if", "for"} /\ comps[l].destroyed)
          => \A s \in DOMAIN sigs' : Invocations(log', l, s) = 0]_vars

\* C6: once destroy() was called on a $ component instance, no write to its
\* signals invokes a listener of the primitives its render function made.
C6_DestroyedInstanceSilent ==
  [][\A l \in DOMAIN comps :
        (/\ comps[l].kind \in {"bind", "if", "for"}
         /\ comps[comps[l].owner].destroyed)
          => \A s \in SetOf(comps[comps[l].owner].signals) :
                Invocations(log', l, s) = 0]_vars

\* C7: a $if notified by a write that leaves its predicate as the write
\* before left it keeps its active branch: the same component, on which
\* neither replace nor destroy is called.
C7_SamePredicateKeepsBranch ==
  [][last'.op = "write" =>
       LET s == last'.x IN
       \A c \in DOMAIN comps :
          (/\ comps[c].kind = "if"
           /\ Invocations(log', c, s) = 1
           /\ Len(sigs[s].hist) > 0
           /\ condition(comps[c].p, sigs[s].value)
                = condition(comps[c].p, sigs'[s].value))
            => /\ comps'[c].component = comps[c].component
               /\ Calls(log', "replace", {comps[c].component}) = 0
               /\ Calls(log', "destroy", {comps[c].component}) = 0]_vars

\* C8: after a notification of a $if, its active branch is the one its
\* predicate selects; when that is another branch than before, the new
\* branch stands in the document where the old one stood and destroy was
\* called on the old one.
C8_ActiveBranchFollowsPredicate ==
  [][\A c \in DOMAIN comps :
        (comps[c].kind = "if" /\ Invocations(log', c, comps[c].cond) = 1) =>
          LET old == comps[c].component
              new == comps'[c].component
          IN
          /\ IF condition(comps[c].p, sigs'[comps[c].cond].value)
               THEN new = comps[c].whenTrue
               ELSE IF comps[c].whenFalse # Null THEN new = comps[c].whenFalse
               ELSE comps'[new].kind = "empty"
          /\ (new # old /\ Shown(comps, nodes, old) # {}) =>
                /\ Shown(comps', nodes', new) # {}
                /\ Shown(comps', nodes', old) = {}
                /\ Calls(log', "destroy", {old}) = 1]_vars

\* the $for f was notified of a write to its list, and index i is in its
\* list before and after with a $ component of the builder's definition
Retained(f, i) ==
  /\ comps[f].kind = "for"
  /\ Invocations(log', f, comps[f].items) = 1
  /\ i <= Len(comps[f].components)
  /\ i <= Len(sigs'[comps[f].items].value)
  /\ comps[comps[f].components[i]].kind = "custom"
  /\ comps[f].tpl.t = "custom"
  /\ comps[f].tpl.def = comps[comps[f].components[i]].serial

\* C9: where the old and the new list of a $for both hold a $ component of
\* one definition at an index, the old instance stays at that index, reload
\* is called on it, and its signals keep their values.
C9_PositionalInstanceKept ==
  [][\A f \in DOMAIN comps : \A i \in 1..Len(comps) :
        Retained(f, i) =>
          LET inst == comps[f].components[i] IN
          /\ comps'[f].components[i] = inst
          /\ Calls(log', "reload", {inst}) = 1
          /\ \A k \in DOMAIN comps[inst].signals :
                sigs'[comps[inst].signals[k]].value = sigs[comps[inst].signals[k]].value]_vars

\* a write takes the list of the $for f from [a] to [a, b]
Grows(f) ==
  /\ last'.op = "write"
  /\ comps[f].kind = "for"
  /\ comps[f].items = last'.x
  /\ Invocations(log', f, last'.x) = 1
  /\ Len(comps[f].components) = 1
  /\ comps[comps[f].components[1]].kind # "empty"
  /\ Len(sigs[last'.x].value) = 1
  /\ Len(sigs'[last'.x].value) = 2
  /\ sigs'[last'.x].value[1] = sigs[last'.x].value[1]

\* the entry of f is a $ component that was given a props object, and so is
\* what the builder makes
Reloadable(f) ==
  /\ comps[comps[f].components[1]].kind = "custom"
  /\ ~comps[comps[f].components[1]].props.void
  /\ comps[f].tpl.t = "custom"
  /\ ~comps[f].tpl.void
  /\ comps[f].tpl.def = comps[comps[f].components[1]].serial

\* C10 (as the code has it): when the list of a $for goes from [a] to
\* [a, b], the reconciliation calls append once and destroy never; it calls
\* replace never when the entries are $ components of one definition that
\* were given a props object, and otherwise once, on the entry it retains.
C10_GrowByOne ==
  [][\A f \in DOMAIN comps :
        Grows(f) =>
          /\ Calls(log', "append", SetOf(comps'[f].components)) = 1
          /\ Calls(log', "destroy", SetOf(comps[f].components)) = 0
          /\ Calls(log', "replace", SetOf(comps[f].components))
               = IF Reloadable(f) THEN 0 ELSE 1]_vars

\* C10 as stated: one append, no replace and no destroy, whatever the
\* builder produces.
C10_AsStated ==
  [][\A f \in DOMAIN comps :
        Grows(f) =>
          /\ Calls(log', "append", SetOf(comps'[f].components)) = 1
          /\ Calls(log', "destroy", SetOf(comps[f].components)) = 0
          /\ Calls(log', "replace", SetOf(comps[f].components)) = 0]_vars

\* a list of $ components with props grown from [a] to [a, b]: the first
\* instance reloaded, the second appended
C10_Witness ==
  /\ last.op = "write"
  /\ \E f \in DOMAIN comps :
        /\ comps[f].kind = "for"
        /\ comps[f].items = last.x
        /\ Len(sigs[last.x].hist) > 0
        /\ Len(Before(last.x)) = 1
        /\ Len(sigs[last.x].value) = 2
        /\ Before(last.x)[1] = sigs[last.x].value[1]
        /\ Len(comps[f].components) = 2
        /\ Calls(log, "reload", {comps[f].components[1]}) = 1
        /\ Calls(log, "append", {comps[f].components[1]}) = 1
        /\ Calls(log, "replace", SetOf(comps[f].components)) = 0

\* a write takes the list of the $for f from [a, b] to [a]
Shrinks(f) ==
  /\ last'.op = "write"
  /\ comps[f].kind = "for"
  /\ comps[f].items = last'.x
  /\ Invocations(log', f, last'.x) = 1
  /\ Len(comps[f].components) = 2
  /\ Len(sigs[last'.x].value) = 2
  /\ Len(sigs'[last'.x].value) = 1
  /\ sigs'[last'.x].value[1] = sigs[last'.x].value[1]

\* C11 (as the code has it): when the list of a $for goes from [a, b] to
\* [a], destroy is called once on the trailing entry, which leaves the list,
\* and neither destroy nor append is called on the entry at index 0; that
\* entry gets exactly one call: reload (and it stays) when the entries are $
\* components of one definition that were given a props object, and
\* otherwise replace (and the newly built entry takes its place).
C11_ShrinkByOne ==
  [][\A f \in DOMAIN comps :
        Shrinks(f) =>
          LET kept == comps[f].components[1]
              gone == comps[f].components[2]
          IN
          /\ Calls(log', "destroy", {gone}) = 1
          /\ Len(comps'[f].components) = 1
          /\ Calls(log', "destroy", {kept}) = 0
          /\ Calls(log', "append", {kept}) = 0
          /\ IF Reloadable(f)
               THEN /\ Calls(log', "reload", {kept}) = 1
                    /\ Calls(log', "replace", {kept}) = 0
                    /\ comps'[f].components[1] = kept
               ELSE /\ Calls(log', "reload", {kept}) = 0
                    /\ Calls(log', "replace", {kept}) = 1
                    /\ comps'[f].components[1] # kept]_vars

\* C11 as stated: one destroy, on the trailing entry, and no call at all on
\* the retained entry.
C11_AsStated ==
  [][\A f \in DOMAIN comps :
        Shrinks(f) =>
          LET kept == comps[f].components[1]
              gone == comps[f].components[2]
          IN
          /\ Calls(log', "destroy", {gone}) = 1
          /\ Len(comps'[f].components) = 1
          /\ Calls(log', "destroy", {kept}) = 0
          /\ Calls(log', "append", {kept}) = 0
          /\ Calls(log', "reload", {kept}) = 0
          /\ Calls(log', "replace", {kept}) = 0]_vars

\* a list of $ components with props shrunk from [a, b] to [a]: the first
\* instance reloaded and kept, the second destroyed
C11_Witness ==
  /\ last.op = "write"
  /\ \E f \in DOMAIN comps :
        /\ comps[f].kind = "for"
        /\ comps[f].items = last.x
        /\ Len(sigs[last.x].hist) > 0
        /\ Len(Before(last.x)) = 2
        /\ Len(sigs[last.x].value) = 1
        /\ Before(last.x)[1] = sigs[last.x].value[1]
        /\ Len(comps[f].components) = 1
        /\ Calls(log, "reload", {comps[f].components[1]}) = 1
        /\ \E g \in DOMAIN comps :
              /\ comps[g].kind = "custom"
              /\ comps[g].destroyed
              /\ Calls(log, "destroy", {g}) = 1

\* component e is what the builder of a $for (template tpl) makes of item:
\* a $bind built for it, a $ component whose current props carry it, or an
\* element showing it
EntryFor(cs, e, tpl, item) ==
  CASE tpl.t = "bind"   -> cs[e].kind = "bind" /\ cs[e].env.item = item
    [] tpl.t = "custom" ->
         /\ cs[e].kind = "custom"
         /\ cs[e].serial = tpl.def
         /\ \A i \in DOMAIN tpl.props :
               tpl.props[i].e = "item" => Get(cs[e].curr.val, tpl.props[i].key) = item
    [] tpl.t = "leaf"   ->
         /\ cs[e].kind = "leaf"
         /\ \A i \in DOMAIN tpl.kids :
               tpl.kids[i].t = "item" => cs[e].kids[i].x = ToString(item)
    [] OTHER            -> TRUE

\* the $for f was evaluated in the step: constructed, or notified
Evaluated(f) ==
  /\ ~err'
  /\ comps'[f].kind = "for"
  /\ \/ f \notin DOMAIN comps
     \/ Invocations(log', f, comps'[f].items) >= 1

\* C12: after every evaluation of a $for its list is non-empty: one entry
\* per item of the array, in array order, or one placeholder when the array
\* is empty.
C12_ListNeverEmpty ==
  [][\A f \in DOMAIN comps' :
        Evaluated(f) =>
          LET items == sigs'[comps'[f].items].value
              cs    == comps'[f].components
          IN
          IF Len(items) = 0
            THEN Len(cs) = 1 /\ comps'[cs[1]].kind = "empty"
            ELSE /\ Len(cs) = Len(items)
                 /\ \A i \in DOMAIN items :
                       EntryFor(comps', cs[i], comps'[f].tpl, items[i])]_vars

\* a $for notified of a write that emptied its list, left with one placeholder
C12_Witness ==
  /\ last.op = "write"
  /\ ~err
  /\ \E f \in DOMAIN comps :
        /\ comps[f].kind = "for"
        /\ comps[f].items = last.x
        /\ Invocations(log, f, last.x) = 1
        /\ Len(Before(last.x)) = 2
        /\ Len(sigs[last.x].value) = 0
        /\ Len(comps[f].components) = 1
        /\ comps[comps[f].components[1]].kind = "empty"

\* objects a and b have the same own keys with identical values
Alike(a, b) == DOMAIN a = DOMAIN b /\ \A k \in DOMAIN a : a[k] = b[k]

\* reload(newProps) was called once in the step on the rendered instance c
Reloaded(c) ==
  /\ comps[c].kind = "custom"
  /\ comps[c].lastRenderResult # Null
  /\ ~comps[c].curr.void
  /\ Calls(log', "reload", {c}) = 1
  /\ ~comps'[c].curr.void

\* C13: reload(newProps) of a rendered instance with newProps shallow-equal
\* to its props runs the render function no more and leaves its node where
\* it was.
C13_SamePropsNoRender ==
  [][last'.op = "write" =>
       \A c \in DOMAIN comps :
          (Reloaded(c) /\ Alike(comps[c].curr.val, comps'[c].curr.val)) =>
             LET n == comps[c].lastRenderResult IN
             /\ comps'[c].renders = comps[c].renders
             /\ comps'[c].lastRenderResult = n
             /\ nodes'[n].parent = nodes[n].parent
             /\ Attached(nodes', n) = Attached(nodes, n)]_vars

\* a mounted Counter reloaded by its $for with the props it already had
C13_Witness ==
  /\ last.op = "write"
  /\ \E c \in DOMAIN comps :
        /\ comps[c].kind = "custom"
        /\ ~comps[c].curr.void
        /\ Calls(log, "reload", {c}) = 1
        /\ Alike(comps[c].prev.val, comps[c].curr.val)
        /\ comps[c].renders >= 1
        /\ Attached(nodes, comps[c].lastRenderResult)

\* ------------------------------------------- reload, over all props objects
\* A page that mounts one Counter with props a and then reloads it with
\* props b, for all objects a and b over two keys.

\* the keys of the props objects
PropKeys == {"title", "initialValue"}

\* the values a key holds: undefined, or one of two values
PropValues == {Undefined, 0, 1}

PropObjects == UNION {[S -> PropValues] : S \in SUBSET PropKeys}

PropsInit ==
  /\ comps = <<>>
  /\ sigs = <<>>
  /\ nodes = <<Node("el", "")>>
  /\ log = <<>>
  /\ err = FALSE
  /\ root = Null
  /\ ops = 0
  /\ pending = <<>>
  /\ overlap = FALSE
  /\ destroys = 0
  /\ \E a \in PropObjects : \E b \in PropObjects :
        last = [op |-> "props", a |-> a, b |-> b]

\* renderRoot(element, Counter(a))
MountWith ==
  /\ last.op = "props"
  /\ LET rendered(h2) == Settle(appendChild(h2, 1, h2.ret))
         made(h1) == rendered(render(h1, h1.ret)) /\ root' = h1.ret
     IN made(dollar(Heap, "Counter", [void |-> FALSE, val |-> last.a]))
  /\ last' = [last EXCEPT !.op = "mounted"]
  /\ UNCHANGED <<ops, destroys>>

\* reload(b) on the mounted instance
ReloadWith ==
  /\ last.op = "mounted"
  /\ Settle(reload(Heap, root, [void |-> FALSE, val |-> last.b]))
  /\ last' = [last EXCEPT !.op = "reloaded"]
  /\ UNCHANGED <<root, ops, destroys>>

PropsNext == MountWith \/ ReloadWith

PropsSpec == PropsInit /\ [][PropsNext]_vars

\* C14: reload(newProps) of a rendered instance runs the render function
\* again and puts the new node in the place of the old one exactly when the
\* new props differ from the previous ones: another set of own keys, or
\* another value at some key.
C14_DifferentPropsRender ==
  [][last'.op = "reloaded" =>
       LET old == comps[root].lastRenderResult
           new == comps'[root].lastRenderResult
       IN
       IF Alike(last.a, last.b)
         THEN comps'[root].renders = comps[root].renders /\ new = old
         ELSE /\ comps'[root].renders = comps[root].renders + 1
              /\ new # old
              /\ Attached(nodes', new)
              /\ ~Attached(nodes', old)]_vars

\* the $mount call of the render function of instance c
MountOf(c) == Defs[comps[c].serial].mount

\* C15: however often the render function of a $ instance has run, the body
\* of its $mount effect has run exactly once (and not at all before the
\* first render).
C15_MountOnce ==
  \A c \in DOMAIN comps :
     comps[c].kind = "custom" =>
        comps[c].mountRuns =
          (IF MountOf(c).has /\ comps[c].renders >= 1 THEN 1 ELSE 0)

\* an instance with a mount effect rendered at least twice
C15_Witness ==
  \E c \in DOMAIN comps :
     /\ comps[c].kind = "custom"
     /\ MountOf(c).has
     /\ comps[c].renders >= 2
     /\ comps[c].mountRuns = 1

\* C16: the cleanup a $mount effect returned is never invoked more often
\* than it was registered, and has been invoked exactly once when destroy()
\* was called on the instance.
C16_CleanupOnce ==
  \A c \in DOMAIN comps :
     comps[c].kind = "custom" =>
        /\ comps[c].cleanupRuns <= Len(comps[c].unmounts)
        /\ comps[c].destroyed => comps[c].cleanupRuns = Len(comps[c].unmounts)

\* e2 is the entry of the render that follows e1's, for the same $effect call
NextPass(e1, e2) == e2.slot = e1.slot /\ e2.render = e1.render + 1

\* C17: on a render after the first, the callback of an $effect runs only
\* when the dependencies passed differ (in length, or at some position) from
\* those passed on the render before.
C17_EffectOnlyOnChange ==
  \A c \in DOMAIN comps :
     (comps[c].kind = "custom" /\ ~comps[c].destroyed) =>
        \A i, j \in DOMAIN comps[c].effectLog :
           LET e1 == comps[c].effectLog[i]
               e2 == comps[c].effectLog[j]
           IN (NextPass(e1, e2) /\ e2.ran) =>
                 \/ Len(e1.deps) # Len(e2.deps)
                 \/ \E k \in DOMAIN e1.deps : e1.deps[k] # e2.deps[k]

\* C18: the signals an instance holds at its hook slots stay the same
\* signals over every render and reload, none is added after the first
\* render, and the value of a signal changes only in a step that writes it.
C18_SlotsKeepSignals ==
  [][/\ \A c \in DOMAIN comps :
           comps[c].kind = "custom" =>
              /\ \A k \in DOMAIN comps[c].signals :
                    /\ k \in DOMAIN comps'[c].signals
                    /\ comps'[c].signals[k] = comps[c].signals[k]
              /\ comps[c].renders >= 1 => comps'[c].signals = comps[c].signals
              /\ Len(comps'[c].signals) <= Len(Defs[comps[c].serial].signals)
     /\ \A s \in DOMAIN sigs :
           Passes(log', s) = 0 => sigs'[s].value = sigs[s].value]_vars

\* a Counter whose count was written, rendered again by a reload with new
\* props in a later step: one signal still, holding the written count
C18_Witness ==
  /\ last.op = "write"
  /\ \E c \in DOMAIN comps :
        /\ comps[c].kind = "custom"
        /\ comps[c].renders >= 2
        /\ Calls(log, "reload", {c}) = 1
        /\ ~Alike(comps[c].prev.val, comps[c].curr.val)
        /\ Len(comps[c].signals) = 1
        /\ comps[c].signals[1] # last.x
        /\ sigs[comps[c].signals[1]].hist # <<>>
        /\ sigs[comps[c].signals[1]].value # sigs[comps[c].signals[1]].init
        /\ read(Heap, comps[c].signals[1]).ret
             = Replay(sigs[comps[c].signals[1]].init, sigs[comps[c].signals[1]].hist)

\* entry i of lg is an invocation of a listener of signal s
Invoked(lg, i, s) == lg[i].op = "listener" /\ lg[i].a = s

\* entry i of lg lies within the write call of signal s that entry w opens:
\* that call has not returned before i
Within(lg, w, i, s) ==
  /\ w < i
  /\ lg[w].op = "write" /\ lg[w].c = s
  /\ \A r \in DOMAIN lg : (w < r /\ r < i) => ~(lg[r].op = "written" /\ lg[r].c = s)

\* C19: every invocation of a listener of a signal happens inside a write
\* call of that signal, and within one write call the listeners are invoked
\* in the order in which they first subscribed.
C19_NotifiedInOrder ==
  [][\A s \in DOMAIN sigs' :
        \A i \in DOMAIN log' :
           Invoked(log', i, s) =>
              /\ \E w \in DOMAIN log' : Within(log', w, i, s)
              /\ Has(sigs'[s].order, log'[i].c)
              /\ \A j \in DOMAIN log' :
                    (/\ i < j
                     /\ Invoked(log', j, s)
                     /\ \E w \in DOMAIN log' : Within(log', w, i, s) /\ Within(log', w, j, s))
                      => IndexOf(sigs'[s].order, log'[i].c)
                           < IndexOf(sigs'[s].order, log'[j].c)]_vars

\* a write that invoked three listeners or more, the write returning after
\* the last of them
C19_Witness ==
  /\ last.op = "write"
  /\ Cardinality({i \in DOMAIN log : Invoked(log, i, last.x)}) >= 3
  /\ \E r \in DOMAIN log :
        /\ log[r].op = "written" /\ log[r].c = last.x
        /\ \A i \in DOMAIN log : Invoked(log, i, last.x) => i < r

\* the hook slots of the signals a component expression reads outside any
\* primitive: the reads among the children of its elements
RECURSIVE ReadsOutside(_)
ReadsOutside(tpl) ==
  IF tpl.t = "read" THEN {tpl.s}
  ELSE IF tpl.t = "leaf" THEN UNION {ReadsOutside(tpl.kids[i]) : i \in DOMAIN tpl.kids}
  ELSE {}

\* C20: a read made while no listener is active returns the value and
\* leaves the subscribers of every signal and the unsubscriber accumulator
\* of the instance as they were; the subscribers of a signal are re-render
\* listeners of $bind, $if and $for primitives only.
C20_UntrackedReadAddsNothing ==
  \A s \in DOMAIN sigs :
     /\ comps[sigs[s].owner].currentListener = Null =>
           LET r == read(Heap, s) IN
           /\ r.ret = sigs[s].value
           /\ r.sigs = sigs
           /\ r.comps = comps
     /\ \A i \in DOMAIN sigs[s].listeners :
           comps[sigs[s].listeners[i]].kind \in {"bind", "if", "for"}

\* a mounted instance whose render function read a signal outside any
\* primitive, after a write to that signal: the instance has rendered once
C20_Witness ==
  /\ last.op = "write"
  /\ \E c \in DOMAIN comps :
        /\ comps[c].kind = "custom"
        /\ comps[c].renders = 1
        /\ comps[c].currentListener = Null
        /\ \E k \in ReadsOutside(Defs[comps[c].serial].body) :
              /\ comps[c].signals[k] = last.x
              /\ sigs[last.x].value # sigs[last.x].init
              /\ read(Heap, last.x).sigs = sigs
              /\ \A i \in DOMAIN log : log[i].op = "listener" => log[i].c # c

\* C21: every notification of a $bind invokes its callback once more (1 + k
\* invocations after k notifications), and when the component the callback
\* produced is not the one rendered before, replace was called on the old
\* one with the new one and the old one is out of the document.
C21_BindReinvokesCallback ==
  [][\A b \in DOMAIN comps :
        comps[b].kind = "bind" =>
          LET k   == Cardinality({i \in DOMAIN log' :
                                    log'[i].op = "listener" /\ log'[i].c = b})
              old == comps[b].component
              new == comps'[b].component
          IN
          /\ comps'[b].calls = comps[b].calls + k
          /\ (k > 0 /\ new # old) =>
                /\ \E i \in DOMAIN log' : log'[i] = [op |-> "replace", c |-> old, a |-> new]
                /\ Shown(comps', nodes', old) = {}]_vars

\* C22: a $for that stands in an element of the document has, after every
\* notification, each of its entries in the document: the placeholder when
\* the array became empty, and the entries of the array when it became
\* non-empty again.
C22_ListStaysAttached ==
  [][\A f \in DOMAIN comps :
        (/\ comps[f].kind = "for"
         /\ ~comps[f].destroyed
         /\ Invocations(log', f, comps[f].items) = 1
         /\ \E p \in DOMAIN comps :
               /\ comps[p].kind = "leaf"
               /\ \E j \in DOMAIN comps[p].kids :
                     comps[p].kids[j].k = "comp" /\ comps[p].kids[j].x = f
               /\ comps[p].el # Null
               /\ comps'[p].el = comps[p].el
               /\ Attached(nodes, comps[p].el)
               /\ Attached(nodes', comps[p].el))
          => \A i \in DOMAIN comps'[f].components :
                Shown(comps', nodes', comps'[f].components[i]) # {}]_vars

\* C23: the nodes of the entries of a $for that stands in an element of the
\* document are, whenever they are all in the document, children of that
\* element in the order of the entries and next to each other, whatever
\* other children the element has.
C23_ListInOrder ==
  \A f \in DOMAIN comps : \A p \in DOMAIN comps :
     (/\ comps[f].kind = "for"
      /\ ~comps[f].destroyed
      /\ comps[p].kind = "leaf"
      /\ \E j \in DOMAIN comps[p].kids :
            comps[p].kids[j].k = "comp" /\ comps[p].kids[j].x = f
      /\ comps[p].el # Null
      /\ Attached(nodes, comps[p].el)
      /\ \A i \in DOMAIN comps[f].components :
            Cardinality(Shown(comps, nodes, comps[f].components[i])) = 1)
       => LET sibs == nodes[comps[p].el].kids IN
          \E o \in 0..Len(sibs) :
             \A i \in DOMAIN comps[f].components :
                /\ o + i <= Len(sibs)
                /\ Shown(comps, nodes, comps[f].components[i]) = {sibs[o + i]}

\* C24: when a $for is notified, at every index its old and its new list
\* both have, unless the old entry is a $ component of the definition the
\* builder instantiates, replace is called exactly once on the old entry,
\* with the newly built entry, reload is not called on it, and the new entry
\* is in the list at that index.
C24_ReplacedAtIndex ==
  [][\A f \in DOMAIN comps :
        (comps[f].kind = "for" /\ Invocations(log', f, comps[f].items) = 1) =>
          \A i \in DOMAIN comps[f].components :
             LET old == comps[f].components[i]
                 new == comps'[f].components[i]
             IN
             (/\ i <= Len(sigs'[comps[f].items].value)
              /\ ~(/\ comps[old].kind = "custom"
                    /\ comps[f].tpl.t = "custom"
                    /\ comps[old].serial = comps[f].tpl.def))
               => /\ new \notin DOMAIN comps
                  /\ Calls(log', "replace", {old}) = 1
                  /\ \E j \in DOMAIN log' :
                        log'[j] = [op |-> "replace", c |-> old, a |-> new]
                  /\ Calls(log', "reload", {old}) = 0]_vars

\* a list of elements or of $binds notified of a write that leaves it an
\* entry at index 0: replace called on the old entry with the one now there
C24_Witness ==
  /\ last.op = "write"
  /\ \E f \in DOMAIN comps :
        /\ comps[f].kind = "for"
        /\ comps[f].items = last.x
        /\ Invocations(log, f, last.x) = 1
        /\ comps[f].tpl.t \in {"leaf", "bind"}
        /\ \E j \in DOMAIN log :
              /\ log[j].op = "replace"
              /\ log[j].a = comps[f].components[1]
              /\ comps[log[j].c].kind = comps[log[j].a].kind
              /\ Calls(log, "replace", {log[j].c}) = 1

\* C25: in every state reached by renders and writes only (the application
\* has destroyed nothing), replace(next) called on a component that has output
\* in the document (for a $bind, a node rendered for it; otherwise the nodes
\* its variant answers for) returns with none of that output in the
\* document and the node rendered for next a child of the same parent, at
\* the position the output began at.
C25_ReplaceSwapsOutput ==
  \A c \in DOMAIN comps :
     LET live == IF comps[c].kind = "bind"
                   THEN {comps[c].outs[i] : i \in AttachedOf(nodes, comps[c].outs)}
                   ELSE Shown(comps, nodes, c)
     IN
     (destroys = 0 /\ live # {}) =>
       LET h0   == elementFactory(Heap, <<>>)
           next == h0.ret
           h    == replace(h0, c, next)
           p    == nodes[CHOOSE n \in live : TRUE].parent
           at   == CHOOSE i \in DOMAIN nodes[p].kids :
                      /\ nodes[p].kids[i] \in live
                      /\ \A j \in 1..(i - 1) : nodes[p].kids[j] \notin live
       IN
       /\ ~h.err
       /\ \A n \in live : ~Attached(h.nodes, n)
       /\ h.comps[next].el # Null
       /\ h.nodes[h.comps[next].el].parent = p
       /\ h.nodes[p].kids[at] = h.comps[next].el

\* C26 (as the code has it): replace(next) on a rendered $ instance that
\* retains mount cleanups puts next's node in the place of the instance's
\* node and then invokes each retained cleanup; append(next) makes next's
\* node the last child of the parent element of the instance's node and
\* invokes no cleanup.
C26_ReplaceTearsDown ==
  \A c \in DOMAIN comps :
     (/\ comps[c].kind = "custom"
      /\ comps[c].unmounts # <<>>
      /\ comps[c].lastRenderResult # Null
      /\ parentElement(nodes, comps[c].lastRenderResult) # Null) =>
       LET h0   == elementFactory(Heap, <<>>)
           next == h0.ret
           r    == replace(h0, c, next)
           a    == append(h0, c, next)
           p    == parentElement(nodes, comps[c].lastRenderResult)
       IN
       /\ r.nodes[r.comps[next].el].parent = p
       /\ r.nodes[comps[c].lastRenderResult].parent = Null
       /\ r.comps[c].cleanupRuns = comps[c].cleanupRuns + Len(comps[c].unmounts)
       /\ Last(a.nodes[p].kids) = a.comps[next].el
       /\ a.nodes[comps[c].lastRenderResult].parent = p
       /\ a.comps[c].cleanupRuns = comps[c].cleanupRuns

\* C26 as stated: replace(next) and append(next) both invoke the retained
\* cleanups after attaching next's node.
C26_AsStated ==
  \A c \in DOMAIN comps :
     (/\ comps[c].kind = "custom"
      /\ comps[c].unmounts # <<>>
      /\ comps[c].lastRenderResult # Null
      /\ parentElement(nodes, comps[c].lastRenderResult) # Null) =>
       LET h0   == elementFactory(Heap, <<>>)
           next == h0.ret
           r    == replace(h0, c, next)
           a    == append(h0, c, next)
           p    == parentElement(nodes, comps[c].lastRenderResult)
       IN
       /\ r.nodes[r.comps[next].el].parent = p
       /\ r.comps[c].cleanupRuns = comps[c].cleanupRuns + Len(comps[c].unmounts)
       /\ Last(a.nodes[p].kids) = a.comps[next].el
       /\ a.comps[c].cleanupRuns = comps[c].cleanupRuns + Len(comps[c].unmounts)

\* a Clock in the document, its timer cleanup retained and not yet invoked:
\* replace invokes it, append does not
C26_Witness ==
  \E c \in DOMAIN comps :
     /\ comps[c].kind = "custom"
     /\ Len(comps[c].unmounts) = 1
     /\ comps[c].cleanupRuns = 0
     /\ comps[c].lastRenderResult # Null
     /\ Attached(nodes, comps[c].lastRenderResult)
     /\ parentElement(nodes, comps[c].lastRenderResult) # Null
     /\ LET h0 == elementFactory(Heap, <<>>) IN
        /\ replace(h0, c, h0.ret).comps[c].cleanupRuns = 1
        /\ append(h0, c, h0.ret).comps[c].cleanupRuns = 0
        /\ Attached(append(h0, c, h0.ret).nodes, append(h0, c, h0.ret).comps[h0.ret].el)

\* C27: assembling the component tree of a render function (the factory and
\* $bind / $if / $for calls of the expression it returns) calls render() on
\* no component, and runs no render function and no $mount effect.
C27_ConstructionHasNoEffect ==
  \A c \in DOMAIN comps :
     (comps[c].kind = "custom" /\ comps[c].renders >= 1) =>
       LET h == build(Heap, [owner |-> c, props |-> comps[c].curr, item |-> Null],
                      Defs[comps[c].serial].body)
       IN
       /\ \A i \in DOMAIN h.log : h.log[i].op # "render"
       /\ \A d \in DOMAIN h.comps :
             h.comps[d].kind = "custom" =>
                IF d \in DOMAIN comps
                  THEN /\ h.comps[d].renders = comps[d].renders
                       /\ h.comps[d].mountRuns = comps[d].mountRuns
                  ELSE h.comps[d].renders = 0 /\ h.comps[d].mountRuns = 0

\* C28: two instances of one $ definition hold no signal in common, and a
\* write to a signal of one of them leaves the value of every signal of the
\* other as it was, opens no notification pass of such a signal and invokes
\* no listener of a primitive of the other.
C28_InstancesApart ==
  [][\A o \in DOMAIN comps' : \A o2 \in DOMAIN comps' :
        (/\ o # o2
         /\ comps'[o].kind = "custom"
         /\ comps'[o2].kind = "custom"
         /\ comps'[o].serial = comps'[o2].serial) =>
          /\ SetOf(comps'[o].signals) \cap SetOf(comps'[o2].signals) = {}
          /\ (last'.op = "write" /\ sigs'[last'.x].owner = o) =>
                /\ \A s2 \in SetOf(comps'[o2].signals) :
                      /\ s2 \in DOMAIN sigs => sigs'[s2].value = sigs[s2].value
                      /\ s2 \notin DOMAIN sigs => sigs'[s2].value = sigs'[s2].init
                      /\ Passes(log', s2) = 0
                /\ \A i \in DOMAIN log' :
                      log'[i].op = "listener" =>
                         /\ comps'[log'[i].c].owner # o2
                         /\ sigs'[log'[i].a].owner # o2]_vars

\* two rendered instances of one definition, the count of one written and
\* its $bind notified, the other's count as it was created, with its own
\* subscriber
C28_Witness ==
  /\ last.op = "write"
  /\ \E o2 \in DOMAIN comps :
        LET o == sigs[last.x].owner IN
        /\ o2 # o
        /\ comps[o2].kind = "custom"
        /\ comps[o2].serial = comps[o].serial
        /\ comps[o].renders >= 1
        /\ comps[o2].renders >= 1
        /\ sigs[last.x].value # sigs[last.x].init
        /\ \E i \in DOMAIN log : log[i].op = "listener" /\ comps[log[i].c].owner = o
        /\ comps[o2].signals # <<>>
        /\ sigs[comps[o2].signals[1]].value = sigs[comps[o2].signals[1]].init
        /\ sigs[comps[o2].signals[1]].hist = <<>>
        /\ sigs[comps[o2].signals[1]].listeners # <<>>

\* ------------------------------------------------------ serials and ids
\* A page that calls $ on two render functions when its modules load, and
\* then the two factories.  In the page above a serial stands for its
\* definition and an instance is named by its index; here both are what
\* createId() returned.

\* strings createId() can return: Math.random().toString(36).substring(2),
\* for Math.random() = 0, 0.25 and 0.5
Ids == {"", "9", "i"}

\* const serial = createId(), for $(Counter's function) and $(Todo's)
IdsInit ==
  /\ comps = <<>>
  /\ sigs = <<>>
  /\ nodes = <<Node("el", "")>>
  /\ log = <<>>
  /\ err = FALSE
  /\ root = Null
  /\ ops = 0
  /\ pending = <<>>
  /\ overlap = FALSE
  /\ destroys = 0
  /\ \E a \in Ids : \E b \in Ids :
        last = [op |-> "defined", serials |-> [Counter |-> a, Todo |-> b]]

\* a factory call: const id = createId(), and the instance returned (def is
\* history: the definition whose factory was called)
Instantiate(def, id) ==
  /\ ops < MaxOps
  /\ LET h == dollar(Heap, last.serials[def], [void |-> TRUE, val |-> <<>>]) IN
     Settle([h EXCEPT !.comps[h.ret] = [def |-> def, id |-> id] @@ @])
  /\ ops' = ops + 1
  /\ UNCHANGED <<root, destroys, last>>

IdsNext == \E def \in {"Counter", "Todo"} : \E id \in Ids : Instantiate(def, id)

IdsSpec == IdsInit /\ [][IdsNext]_vars

\* C29: two instances of one definition carry the same serial, two
\* instances of different definitions carry different serials, and no two
\* instances carry the same id.
C29_SerialsAndIds ==
  \A i \in DOMAIN comps : \A j \in DOMAIN comps :
     /\ comps[i].def = comps[j].def => comps[i].serial = comps[j].serial
     /\ comps[i].def # comps[j].def => comps[i].serial # comps[j].serial
     /\ i # j => comps[i].id # comps[j].id

\* ------------------------------------------- listeners that write
\* A component with one signal (a level, 0 to 2) and three functions the
\* application may hand to the signal's subscribe: one that only watches,
\* one that writes 1 when called with 2, one that writes 1 when called
\* with 0.

SigInit ==
  LET h0 == [comps |-> <<>>, sigs |-> <<>>, nodes |-> <<Node("el", "")>>,
             pending |-> <<>>, overlap |-> FALSE, log |-> <<>>, err |-> FALSE,
             ret |-> Null]
      h1 == dollar(h0, "Counter", [void |-> TRUE, val |-> <<>>])
      h2 == dollarSignal(h1, h1.ret, 0)
      cb(when) == [kind |-> "callback", owner |-> h1.ret, sig |-> h2.ret,
                   when |-> when, nv |-> Val(1)]
  IN
  /\ comps = h2.comps \o <<cb({}), cb({2}), cb({0})>>
  /\ sigs = h2.sigs
  /\ nodes = h2.nodes
  /\ log = <<>>
  /\ err = FALSE
  /\ root = h1.ret
  /\ ops = 0
  /\ pending = <<>>
  /\ overlap = FALSE
  /\ destroys = 0
  /\ last = [op |-> "none", x |-> Null, nv |-> Val(Null)]

\* the application subscribes one of its functions
Subscribe(l) ==
  /\ comps[l].kind = "callback"
  /\ ~Has(sigs[comps[l].sig].listeners, l)
  /\ Settle(subscribe(Heap, comps[l].sig, l))
  /\ last' = [op |-> "subscribe", x |-> l, nv |-> Val(Null)]
  /\ UNCHANGED <<root, ops, destroys>>

\* the application writes the level
Set(s, v) ==
  /\ ops < MaxOps
  /\ Settle(write(Heap, s, Val(v)))
  /\ last' = [op |-> "write", x |-> s, nv |-> Val(v)]
  /\ ops' = ops + 1
  /\ UNCHANGED <<root, destroys>>

SigNext ==
  \/ \E l \in DOMAIN comps : Subscribe(l)
  \/ \E s \in DOMAIN sigs : \E v \in 0..2 : Set(s, v)

SigSpec == SigInit /\ [][SigNext]_vars

\* C30: every write call of a signal, one made by a subscriber during a
\* pass of that signal included, returns after it has invoked each
\* subscriber of the signal exactly once, in subscription order; the calls
\* a nested write makes lie between two invocations of the pass it
\* interrupts, which goes on to invoke the subscribers it had not reached.
C30_NestedPassComplete ==
  LET open(i)  == log[i].op = "write"
      close(i) == log[i].op = "written"
      depth(i) == Cardinality({j \in 1..(i - 1) : open(j)})
                    - Cardinality({j \in 1..(i - 1) : close(j)})
  IN
  \A w \in DOMAIN log :
     open(w) =>
       LET s      == log[w].c
           ends   == {r \in DOMAIN log : r > w /\ close(r) /\ depth(r) = depth(w) + 1}
           r      == CHOOSE e \in ends : \A e2 \in ends : e <= e2
           direct == {i \in (w + 1)..(r - 1) :
                        log[i].op = "listener" /\ depth(i) = depth(w) + 1}
       IN
       /\ ends # {}
       /\ \A i \in direct : log[i].a = s
       /\ \A l \in SetOf(sigs[s].listeners) :
             Cardinality({i \in direct : log[i].c = l}) = 1
       /\ \A i \in direct : \A j \in direct :
             i < j => IndexOf(sigs[s].listeners, log[i].c)
                        < IndexOf(sigs[s].listeners, log[j].c)

\* a write of 2 with three subscribers, the one that writes neither first
\* nor last: the write it makes invokes all three before it returns, and
\* the pass it interrupted then invokes the subscriber after it
C30_Witness ==
  /\ last.op = "write"
  /\ Len(sigs[last.x].listeners) = 3
  /\ \E w \in DOMAIN log : \E r \in DOMAIN log : \E i \in DOMAIN log :
        /\ 1 < w /\ w < r /\ r < i
        /\ log[w].op = "write"
        /\ log[r].op = "written"
        /\ Cardinality({j \in w..r : log[j].op = "listener"}) = 3
        /\ log[w - 1].op = "listener"
        /\ log[w - 1].c = sigs[last.x].listeners[2]
        /\ log[i].op = "listener"
        /\ log[i].c = sigs[last.x].listeners[3]
        /\ \A j \in (r + 1)..(i - 1) : log[j].op # "write"

\* C31: the predicate of a $if has been evaluated once when the $if call
\* returns, with the $if's listener active (so that the $if is subscribed
\* to the signal it reads), and once more for every invocation of that
\* listener; render() calls on the $if add no evaluation.
C31_PredicateOncePerPass ==
  [][\A c \in DOMAIN comps' :
        comps'[c].kind = "if" =>
          LET k == Cardinality({i \in DOMAIN log' :
                                  log'[i].op = "listener" /\ log'[i].c = c})
          IN
          IF c \in DOMAIN comps
            THEN comps'[c].evals = comps[c].evals + k
            ELSE /\ comps'[c].evals = 1 + k
                 /\ Has(sigs'[comps'[c].cond].order, c)]_vars

\* a $if made and rendered by renderRoot, notified by the last write, in
\* the document: two evaluations of its predicate or more, one per pass
C31_Witness ==
  /\ last.op = "write"
  /\ \E c \in DOMAIN comps :
        /\ comps[c].kind = "if"
        /\ comps[c].owner = root
        /\ Invocations(log, c, last.x) = 1
        /\ comps[c].evals = 1 + Len(sigs[last.x].hist)
        /\ comps[c].evals >= 2
        /\ Shown(comps, nodes, c) # {}

\* C32: after a step in which a reload ran the render function of an
\* instance again, no primitive the instance owned before the step is
\* subscribed to a signal; and after a step in which a $for called replace
\* on an entry that is a $bind, $if or $for, that entry is subscribed to no
\* signal.
C32_SupersededUnsubscribed ==
  [][\A l \in DOMAIN comps :
        comps[l].kind \in {"bind", "if", "for"} =>
          LET o          == comps[l].owner
              rerendered == /\ Calls(log', "reload", {o}) >= 1
                            /\ comps'[o].renders > comps[o].renders
              replaced   == \E f \in DOMAIN comps :
                               /\ comps[f].kind = "for"
                               /\ Has(comps[f].components, l)
                               /\ ~Has(comps'[f].components, l)
                               /\ Calls(log', "replace", {l}) >= 1
          IN (rerendered \/ replaced) =>
                \A s \in DOMAIN sigs' : ~Has(sigs'[s].listeners, l)]_vars

\* C33: when a node that a custom component instance rendered is attached
\* to the document, the node the instance remembers as its last render
\* result (element()) is attached to the document.
C33_ElementIsAttachedNode ==
  \A c \in DOMAIN comps :
     (/\ comps[c].kind = "custom"
      /\ \E i \in DOMAIN comps[c].results : Attached(nodes, comps[c].results[i])) =>
        /\ comps[c].lastRenderResult # Null
        /\ Attached(nodes, comps[c].lastRenderResult)

\* C34: destroy() of a $bind, $if or $for leaves that primitive subscribed
\* to no signal, and leaves subscribed every primitive of the same instance
\* on which the call did not call destroy() in turn.
C34_DestroyOwnListenerOnly ==
  \A c \in DOMAIN comps :
     (comps[c].kind \in {"bind", "if", "for"} /\ ~comps[c].destroyed) =>
        LET h == destroy(Heap, c) IN
        \A s \in DOMAIN sigs :
           /\ ~Has(h.sigs[s].listeners, c)
           /\ \A l \in SetOf(sigs[s].listeners) :
                 (/\ l # c
                  /\ comps[l].owner = comps[c].owner
                  /\ Calls(h.log, "destroy", {l}) = 0) => Has(h.sigs[s].listeners, l)

\* C35: after every handler, and at every invocation of a listener in a
\* notification pass, no instance's signal context has an active listener
\* or a non-empty unsubscriber accumulator.
C35_ContextIdleOutside ==
  /\ signalCtx(Heap) = {}
  /\ \A i \in DOMAIN log : log[i].op = "context" => log[i].a = 0

\* a write whose pass invoked a listener that constructed a $bind (which
\* took its unsubscribers from the accumulator), the contexts idle after
C35_Witness ==
  /\ last.op = "write"
  /\ \E i \in DOMAIN log : log[i].op = "context" /\ log[i].c = last.x
  /\ \E b \in DOMAIN comps :
        /\ comps[b].kind = "bind"
        /\ comps[b].unsubscribers # <<>>
        /\ comps[b].calls = 1
        /\ \E f \in DOMAIN comps :
              /\ comps[f].kind = "for"
              /\ Has(comps[f].components, b)
              /\ Invocations(log, f, last.x) = 1
              /\ Len(sigs[last.x].hist) >= 2
  /\ \A c \in DOMAIN comps :
        comps[c].kind = "custom" =>
          comps[c].currentListener = Null /\ comps[c].unsubscribers = <<>>

\* C36: when a node rendered by an instance of a component with a mount
\* effect is attached to the document, the effect has run, and if it
\* returned a cleanup, the cleanup has not been invoked since that run.
C36_MountedMeansEffectLive ==
  \A c \in DOMAIN comps :
     (/\ comps[c].kind = "custom"
      /\ Defs[comps[c].serial].mount.has
      /\ \E i \in DOMAIN comps[c].results : Attached(nodes, comps[c].results[i])) =>
        /\ comps[c].mountRuns >= 1
        /\ Defs[comps[c].serial].mount.cleanup => ~comps[c].cleaned

\* C37: no $for reconciliation appends an entry while the list of entries
\* reconciled so far is empty (the model raises err there, where the code
\* would index an empty array), and every $for holds at least one entry, so
\* that index 0 is always reconciled before any index is appended.
C37_AppendTargetExists ==
  /\ ~err
  /\ \A f \in DOMAIN comps : comps[f].kind = "for" => Len(comps[f].components) >= 1

\* a write of a longer list to a $for that showed its placeholder: the new
\* entries after the first were appended to the entry before them
C37_Witness ==
  /\ last.op = "write"
  /\ ~err
  /\ \E f \in DOMAIN comps :
        /\ comps[f].kind = "for"
        /\ comps[f].items = last.x
        /\ Len(Before(last.x)) = 0
        /\ Invocations(log, f, last.x) = 1
        /\ Len(comps[f].components) >= 2
        /\ \E i \in DOMAIN log :
              /\ log[i].op = "append"
              /\ log[i].c = comps[f].components[1]
              /\ log[i].a = comps[f].components[2]

\* C38: a write during whose notification pass no write call is made
\* returns: the pass ends without an exception, the write's return is the
\* last thing the handler does, and the pass has invoked every listener at
\* most once, the listeners that subscribed to the signal while the pass
\* was running included.
C38_WriteReturns ==
  [][(/\ last'.op = "write"
      /\ Cardinality({i \in DOMAIN log' : log'[i].op = "write"}) = 1) =>
        LET s == last'.x IN
        /\ ~err'
        /\ log'[1].op = "write" /\ log'[1].c = s
        /\ log'[Len(log')].op = "written" /\ log'[Len(log')].c = s
        /\ \A l \in DOMAIN comps' : Invocations(log', l, s) <= 1
        /\ \A l \in SetOf(sigs'[s].listeners) \ SetOf(sigs[s].listeners) :
              Invocations(log', l, s) = 1]_vars

\* a write to a list whose $for builder makes a $bind reading the list: the
\* pass has invoked the $for, which replaced its entries by new $binds that
\* subscribed to the list while the pass ran, and then each of these
C38_Witness ==
  /\ last.op = "write"
  /\ ~err
  /\ log[Len(log)].op = "written"
  /\ Cardinality({i \in DOMAIN log : log[i].op = "write"}) = 1
  /\ \E f \in DOMAIN comps :
        /\ comps[f].kind = "for"
        /\ comps[f].items = last.x
        /\ Invocations(log, f, last.x) = 1
        /\ Calls(log, "replace", DOMAIN comps) >= 1
        /\ \E j \in DOMAIN comps[f].components :
              LET b == comps[f].components[j] IN
              /\ comps[b].kind = "bind"
              /\ Has(sigs[last.x].listeners, b)
              /\ Invocations(log, b, last.x) = 1

\* C39: after reload(newProps) on a mounted instance, the props field of
\* the instance is newProps, the props its render function is given next.
C39_PropsFieldIsCurrent ==
  last.op = "reloaded" =>
    /\ comps[root].curr = [void |-> FALSE, val |-> last.b]
    /\ comps[root].props = comps[root].curr

====
